---- MODULE Spec2Model ----
(***************************************************************************)
(* World kernel of dolly-grid-sim: coordinate model, tower lattice, graph  *)
(* builder, movement policy, breadth-first pathfinder, swap planner and    *)
(* the command runner of App.tsx.                                          *)
(*                                                                         *)
(* A Tile is a record [x, z].  A TileId is the string "x:z", kept as the   *)
(* sequence of its characters so that formatting, parsing and string       *)
(* comparison are computed and not assumed.  An absent value (null) of a   *)
(* Tile-valued reference is the empty sequence, a present one the          *)
(* one-element sequence holding the tile.                                  *)
(***************************************************************************)
EXTENDS Integers, Sequences, FiniteSets, TLC

VARIABLES
    queueRef,         \* queueRef.current: the command queue
    dollyTileRef,     \* dollyTileRef.current: tile of the agent
    towersRef,        \* towersRef.current: list of placed towers
    carryingRef,      \* carryingRef.current: <<>> or <<origin tile>>
    pathRef,          \* pathRef.current: the committed path, <<>> if none
    towerSetRef,      \* towerSetRef.current
    adjRef,           \* adjRef.current: adjacency of the runtime mode
    adjTransportRef,  \* adjTransportRef.current: TRANSPORT adjacency
    kicks,            \* runNext microtasks queued and not yet run
    intents,          \* number of intents submitted so far
    towerIds,         \* history: towerIds[i] is the tower standing on towersRef[i]
    carriedId,        \* history: the tower being carried, 0 if none
    swap,             \* history: the swap the queue was last filled with, if any
    ran,              \* history: the refs as the last run of runNext found them
    rewrite,          \* history: the command last rewritten with a move, and its fate
    arrivals,         \* history: the calls of handleArrive made in the last frame
    fn,               \* pure-function harness: call performed, its inputs
    out               \* pure-function harness: result of the call

vars == <<queueRef, dollyTileRef, towersRef, carryingRef, pathRef,
          towerSetRef, adjRef, adjTransportRef, kicks, intents,
          towerIds, carriedId, swap, ran, rewrite, arrivals, fn, out>>

-----------------------------------------------------------------------------
(* Bounds *)

\* columns of the runner's grid
RunCols == 8
\* rows of the runner's grid
RunRows == 3
\* intents submitted in one behaviour of the runner
MaxIntents == 3
\* intents submitted in a run of lifts, drops and swaps only
MaxSwapIntents == 4
\* intents submitted in one behaviour of the runner under fairness
MaxFairIntents == 2
\* columns and rows of the largest grid handed to the pure functions
MaxSide == 3
\* towers placed on a grid handed to the pure functions
MaxPlaced == 3
\* rows of the two-column grid whose last rows have two-digit coordinates
LongRows == 11
\* edges of a hand-made edge list
MaxEdges == 2
\* columns and rows of the largest grid handed to buildBaseEdges alone
MaxEdgeSide == 10
\* tiles named by a hand-made adjacency map
MaxNodes == 3
\* neighbours listed for one tile of a hand-made adjacency map
MaxDegree == 2
\* columns and rows of the largest grid handed to generateTowerTiles alone
MaxTowerSide == 9
\* the largest maxTowers handed to generateTowerTiles alone
MaxTowerCap == 5
\* intents submitted in a run of the runner that is also sent off the grid
MaxOutsideIntents == 2
\* the largest coordinate of a tile handed to toTileId alone
MaxCoord == 12
\* columns and rows of the largest grid handed to allTiles alone
MaxTilesSide == 12

-----------------------------------------------------------------------------
(* gridTypes.ts / gridMath.ts *)

Tile(x, z) == [x |-> x, z |-> z]

DigitChars == <<"0", "1", "2", "3", "4", "5", "6", "7", "8", "9">>

\* decimal digits of a natural number, most significant first
RECURSIVE NatDigits(_)
NatDigits(n) ==
    IF n < 10 THEN <<DigitChars[n + 1]>>
    ELSE Append(NatDigits(n \div 10), DigitChars[(n % 10) + 1])

\* `${n}` for an integer n
NumberToString(n) == IF n < 0 THEN <<"-">> \o NatDigits(-n) ELSE NatDigits(n)

toTileId(tile) == NumberToString(tile.x) \o <<":">> \o NumberToString(tile.z)

tileEquals(a, b) == a.x = b.x /\ a.z = b.z

isInBounds(tile, g) ==
    /\ tile.x >= 0
    /\ tile.x < g.cols
    /\ tile.z >= 0
    /\ tile.z < g.rows

DigitValue(c) == CHOOSE d \in 0..9 : DigitChars[d + 1] = c

\* DigitsToNat with a fault: the digits are added up
RECURSIVE DigitsToNatSum(_, _)
DigitsToNatSum(s, acc) ==
    IF s = <<>> THEN acc
    ELSE DigitsToNatSum(Tail(s), acc + DigitValue(Head(s)))

\* Number(s) for a string of decimal digits with an optional leading minus
RECURSIVE DigitsToNat(_, _)
DigitsToNat(s, acc) ==
    IF s = <<>> THEN acc
    ELSE DigitsToNat(Tail(s), acc * 10 + DigitValue(Head(s)))

StringToNumber(s) ==
    IF s # <<>> /\ Head(s) = "-" THEN 0 - DigitsToNat(Tail(s), 0)
    ELSE DigitsToNat(s, 0)

\* id.split(":"): the part before the first colon and the part after it
ColonAt(id) == CHOOSE i \in 1..Len(id) :
                   id[i] = ":" /\ \A j \in 1..(i - 1) : id[j] # ":"

parseTileId(id) ==
    LET i == ColonAt(id)
    IN  [x |-> StringToNumber(SubSeq(id, 1, i - 1)),
         z |-> StringToNumber(SubSeq(id, i + 1, Len(id)))]

(* A loop of the source is an operator over the range lo..hi of its        *)
(* iterations: one iteration is the loop body, several are the first half  *)
(* of the range followed by the second half.                               *)

\* allTilesRow with a fault: the row is pushed from its last column to its first
RECURSIVE allTilesRowBackwards(_, _, _, _)
allTilesRowBackwards(g, z, lo, hi) ==
    IF lo > hi THEN <<>>
    ELSE IF lo = hi THEN <<Tile(lo, z)>>
    ELSE LET mid == (lo + hi) \div 2
         IN  allTilesRowBackwards(g, z, mid + 1, hi) \o allTilesRowBackwards(g, z, lo, mid)

\* for (let x = 0; x < cols; x++) tiles.push({x, z}): what x = lo..hi push
RECURSIVE allTilesRow(_, _, _, _)
allTilesRow(g, z, lo, hi) ==
    IF lo > hi THEN <<>>
    ELSE IF lo = hi THEN <<Tile(lo, z)>>
    ELSE LET mid == (lo + hi) \div 2
         IN  allTilesRow(g, z, lo, mid) \o allTilesRow(g, z, mid + 1, hi)

\* for (let z = 0; z < rows; z++) { the loop over x }: what z = lo..hi push
RECURSIVE allTilesLoop(_, _, _)
allTilesLoop(g, lo, hi) ==
    IF lo > hi THEN <<>>
    ELSE IF lo = hi THEN allTilesRow(g, lo, 0, g.cols - 1)
    ELSE LET mid == (lo + hi) \div 2
         IN  allTilesLoop(g, lo, mid) \o allTilesLoop(g, mid + 1, hi)

allTiles(g) == allTilesLoop(g, 0, g.rows - 1)

-----------------------------------------------------------------------------
(* towerLocations.ts *)

DefaultMaxTowers == 24

RECURSIVE generateTowerLoop(_, _, _, _, _)
generateTowerLoop(g, maxTowers, z, x, towerTiles) ==
    IF z >= g.rows THEN towerTiles
    ELSE IF x >= g.cols - 1 THEN generateTowerLoop(g, maxTowers, z + 2, 2, towerTiles)
    ELSE LET pushed == Append(towerTiles, Tile(x, z))
         IN  IF Len(pushed) >= maxTowers THEN pushed
             ELSE generateTowerLoop(g, maxTowers, z, x + 2, pushed)

generateTowerTiles(g, maxTowers) == generateTowerLoop(g, maxTowers, 2, 2, <<>>)

buildTowerSet(towers) == {toTileId(towers[i]) : i \in 1..Len(towers)}

-----------------------------------------------------------------------------
(* neighbors.ts *)

Edge(a, b, axis) == [a |-> a, b |-> b, axis |-> axis]

\* buildBaseEdgesLoop with a fault: the south edge of a tile is pushed before
\* its east edge
RECURSIVE buildBaseEdgesLoopSouthFirst(_, _, _, _)
buildBaseEdgesLoopSouthFirst(g, tiles, lo, hi) ==
    IF lo > hi THEN <<>>
    ELSE IF lo = hi
    THEN LET tile  == tiles[lo]
             east  == Tile(tile.x + 1, tile.z)
             south == Tile(tile.x, tile.z + 1)
         IN  (IF isInBounds(south, g)
              THEN <<Edge(toTileId(tile), toTileId(south), "Z")>> ELSE <<>>)
             \o (IF isInBounds(east, g)
                 THEN <<Edge(toTileId(tile), toTileId(east), "X")>> ELSE <<>>)
    ELSE LET mid == (lo + hi) \div 2
         IN  buildBaseEdgesLoopSouthFirst(g, tiles, lo, mid)
             \o buildBaseEdgesLoopSouthFirst(g, tiles, mid + 1, hi)

\* for (const tile of allTiles(grid)) { east; south }: what tiles lo..hi push
RECURSIVE buildBaseEdgesLoop(_, _, _, _)
buildBaseEdgesLoop(g, tiles, lo, hi) ==
    IF lo > hi THEN <<>>
    ELSE IF lo = hi
    THEN LET tile  == tiles[lo]
             east  == Tile(tile.x + 1, tile.z)
             south == Tile(tile.x, tile.z + 1)
         IN  (IF isInBounds(east, g)
              THEN <<Edge(toTileId(tile), toTileId(east), "X")>> ELSE <<>>)
             \o (IF isInBounds(south, g)
                 THEN <<Edge(toTileId(tile), toTileId(south), "Z")>> ELSE <<>>)
    ELSE LET mid == (lo + hi) \div 2
         IN  buildBaseEdgesLoop(g, tiles, lo, mid) \o buildBaseEdgesLoop(g, tiles, mid + 1, hi)

\* buildBaseEdges with a fault: the west neighbour is visited too, every X pair twice
RECURSIVE buildBaseEdgesLoopWest(_, _, _, _)
buildBaseEdgesLoopWest(g, tiles, lo, hi) ==
    IF lo > hi THEN <<>>
    ELSE IF lo = hi
    THEN LET tile  == tiles[lo]
             east  == Tile(tile.x + 1, tile.z)
             west  == Tile(tile.x - 1, tile.z)
             south == Tile(tile.x, tile.z + 1)
         IN  (IF isInBounds(east, g)
              THEN <<Edge(toTileId(tile), toTileId(east), "X")>> ELSE <<>>)
             \o (IF isInBounds(south, g)
                 THEN <<Edge(toTileId(tile), toTileId(south), "Z")>> ELSE <<>>)
             \o (IF isInBounds(west, g)
                 THEN <<Edge(toTileId(tile), toTileId(west), "X")>> ELSE <<>>)
    ELSE LET mid == (lo + hi) \div 2
         IN  buildBaseEdgesLoopWest(g, tiles, lo, mid)
                \o buildBaseEdgesLoopWest(g, tiles, mid + 1, hi)

buildBaseEdgesBothWays(g) ==
    LET tiles == allTiles(g)
    IN  buildBaseEdgesLoopWest(g, tiles, 1, Len(tiles))

buildBaseEdges(g) ==
    LET tiles == allTiles(g)
    IN  buildBaseEdgesLoop(g, tiles, 1, Len(tiles))

\* addEdgesLoop with a fault: the reverse direction adj[e.b].push(e.a) forgotten
RECURSIVE addEdgesLoopOneWay(_, _, _, _)
addEdgesLoopOneWay(adj, edges, lo, hi) ==
    IF lo > hi THEN adj
    ELSE IF lo = hi
    THEN LET e == edges[lo] IN [adj EXCEPT ![e.a] = Append(@, e.b)]
    ELSE LET mid   == (lo + hi) \div 2
             first == addEdgesLoopOneWay(adj, edges, lo, mid)
         IN  IF DOMAIN first = DOMAIN adj
             THEN addEdgesLoopOneWay(first, edges, mid + 1, hi)
             ELSE first

\* for (const e of edges) { adj[e.a].push(e.b); adj[e.b].push(e.a) }: the
\* iterations lo..hi applied to adj.  A push adds no key, so the test on the
\* keys holds always; it has the first half computed before the second starts.
RECURSIVE addEdgesLoop(_, _, _, _)
addEdgesLoop(adj, edges, lo, hi) ==
    IF lo > hi THEN adj
    ELSE IF lo = hi
    THEN LET e == edges[lo]
         IN  [adj EXCEPT ![e.a] = Append(@, e.b), ![e.b] = Append(@, e.a)]
    ELSE LET mid   == (lo + hi) \div 2
             first == addEdgesLoop(adj, edges, lo, mid)
         IN  IF DOMAIN first = DOMAIN adj
             THEN addEdgesLoop(first, edges, mid + 1, hi)
             ELSE first

\* edgesToAdjacency with a fault: no entry for a tile that no edge names
edgesToAdjacencyLazy(g, edges) ==
    LET named == {edges[i].a : i \in 1..Len(edges)} \cup {edges[i].b : i \in 1..Len(edges)}
    IN  addEdgesLoop([id \in named |-> <<>>], edges, 1, Len(edges))


edgesToAdjacency(g, edges) ==
    LET tiles == allTiles(g)
        empty == [id \in {toTileId(tiles[i]) : i \in 1..Len(tiles)} |-> <<>>]
    IN  addEdgesLoop(empty, edges, 1, Len(edges))

-----------------------------------------------------------------------------
(* gridRules.ts *)

Modes == {"NORMAL", "TRANSPORT"}

\* keepEdge with a fault: the rules of the two modes are exchanged
keepEdgeExchanged(mode, e, towerSet) ==
    LET aIsTower == e.a \in towerSet
        bIsTower == e.b \in towerSet
    IN  IF mode = "NORMAL" THEN ~aIsTower /\ ~bIsTower
        ELSE IF e.axis = "Z" THEN TRUE
        ELSE ~aIsTower /\ ~bIsTower

\* keepEdge with a fault: an X edge is tested at its first endpoint only
keepEdgeOneEndpoint(mode, e, towerSet) ==
    LET aIsTower == e.a \in towerSet
        bIsTower == e.b \in towerSet
    IN  IF mode = "TRANSPORT" THEN ~aIsTower /\ ~bIsTower
        ELSE IF e.axis = "Z" THEN TRUE
        ELSE ~aIsTower

\* keepEdge with a fault: NORMAL blocks a tower's Z edges as TRANSPORT does
keepEdgeAnyAxis(mode, e, towerSet) ==
    LET aIsTower == e.a \in towerSet
        bIsTower == e.b \in towerSet
    IN  ~aIsTower /\ ~bIsTower

keepEdge(mode, e, towerSet) ==
    LET aIsTower == e.a \in towerSet
        bIsTower == e.b \in towerSet
    IN  IF mode = "TRANSPORT" THEN ~aIsTower /\ ~bIsTower
        ELSE IF e.axis = "Z" THEN TRUE
        ELSE ~aIsTower /\ ~bIsTower

pruneEdgesForTowerModeBlocking(mode, baseEdges, towerSet) ==
    SelectSeq(baseEdges, LAMBDA e : keepEdge(mode, e, towerSet))

buildPrunedAdjacency(mode, g, baseEdges, towerSet) ==
    edgesToAdjacency(g, pruneEdgesForTowerModeBlocking(mode, baseEdges, towerSet))

-----------------------------------------------------------------------------
(* bfs.ts *)

\* null of a TileId-valued slot (cameFrom[startId] = null)
NullId == <<>>

\* adj[id] ?? []
neighborsOf(adj, id) == IF id \in DOMAIN adj THEN adj[id] ELSE <<>>

\* cameFrom[cur] ?? null
cameFromOf(cameFrom, cur) == IF cur \in DOMAIN cameFrom THEN cameFrom[cur] ELSE NullId

\* while (cur !== null) { path.push(cur); cur = cameFrom[cur] ?? null }
RECURSIVE reconstructLoop(_, _, _)
reconstructLoop(cameFrom, cur, path) ==
    IF cur = NullId THEN path
    ELSE reconstructLoop(cameFrom, cameFromOf(cameFrom, cur), Append(path, cur))

Reverse(s) == [i \in 1..Len(s) |-> s[Len(s) + 1 - i]]

\* reconstructPath with a fault: path.reverse() forgotten
reconstructPathNoReverse(cameFrom, goalId) == reconstructLoop(cameFrom, goalId, <<>>)


reconstructPath(cameFrom, goalId) == Reverse(reconstructLoop(cameFrom, goalId, <<>>))

\* bfsVisitLoop with a fault: the loop stops one neighbour short (i < length - 1)
RECURSIVE bfsVisitLoopShort(_, _, _, _)
bfsVisitLoopShort(neighbors, i, current, st) ==
    IF i > Len(neighbors) - 1 THEN st
    ELSE LET next == neighbors[i]
         IN  IF next \in st.visited
             THEN bfsVisitLoopShort(neighbors, i + 1, current, st)
             ELSE bfsVisitLoopShort(neighbors, i + 1, current,
                      [queue    |-> Append(st.queue, next),
                       visited  |-> st.visited \cup {next},
                       cameFrom |-> (next :> current) @@ st.cameFrom])

\* for (const next of neighbors) { if visited: continue; mark; cameFrom; push }
RECURSIVE bfsVisitLoop(_, _, _, _)
bfsVisitLoop(neighbors, i, current, st) ==
    IF i > Len(neighbors) THEN st
    ELSE LET next == neighbors[i]
         IN  IF next \in st.visited
             THEN bfsVisitLoop(neighbors, i + 1, current, st)
             ELSE bfsVisitLoop(neighbors, i + 1, current,
                      [queue    |-> Append(st.queue, next),
                       visited  |-> st.visited \cup {next},
                       cameFrom |-> (next :> current) @@ st.cameFrom])

\* bfsStep with a fault: takes the newest tile of the queue (queue.pop()), a depth-first search
bfsStepLifo(adj, goalId, run) ==
    IF run.found \/ run.st.queue = <<>> THEN run
    ELSE LET current == run.st.queue[Len(run.st.queue)]
             popped  == [run.st EXCEPT !.queue = SubSeq(@, 1, Len(@) - 1)]
         IN  IF current = goalId
             THEN [st |-> popped, found |-> TRUE]
             ELSE [st    |-> bfsVisitLoop(neighborsOf(adj, current), 1, current, popped),
                   found |-> FALSE]

\* one pass of while (queue.length > 0) { current = queue.shift(); ... }; the
\* loop is over once the queue is empty or current === goalId was found
bfsStep(adj, goalId, run) ==
    IF run.found \/ run.st.queue = <<>> THEN run
    ELSE LET current == Head(run.st.queue)
             shifted == [run.st EXCEPT !.queue = Tail(@)]
         IN  IF current = goalId
             THEN [st |-> shifted, found |-> TRUE]
             ELSE [st    |-> bfsVisitLoop(neighborsOf(adj, current), 1, current, shifted),
                   found |-> FALSE]

\* the passes lo..hi of the while loop
RECURSIVE bfsRun(_, _, _, _, _)
bfsRun(adj, goalId, run, lo, hi) ==
    IF lo > hi THEN run
    ELSE IF lo = hi THEN bfsStep(adj, goalId, run)
    ELSE LET mid   == (lo + hi) \div 2
             first == bfsRun(adj, goalId, run, lo, mid)
         IN  IF first.found \/ first.st.queue = <<>> THEN first
             ELSE bfsRun(adj, goalId, first, mid + 1, hi)

\* a pass shifts one id and an id is pushed once only (visited), so the loop
\* makes no more passes than there are ids to visit
bfsPasses(adj, st) ==
    Cardinality(st.visited
                \cup UNION {{adj[k][i] : i \in 1..Len(adj[k])} : k \in DOMAIN adj})

\* the while loop run to its end: the reconstructed path, or [] after the loop
bfsLoop(adj, goalId, st) ==
    LET run == bfsRun(adj, goalId, [st |-> st, found |-> FALSE], 1, bfsPasses(adj, st))
    IN  IF run.found THEN reconstructPath(run.st.cameFrom, goalId) ELSE <<>>

\* bfsPath with a fault: the trivial case answers "no path"
bfsPathTrivialEmpty(adj, start, goal) ==
    LET startId == toTileId(start)
        goalId  == toTileId(goal)
    IN  IF startId = goalId THEN <<>>
        ELSE LET ids == bfsLoop(adj, goalId,
                                [queue    |-> <<startId>>,
                                 visited  |-> {startId},
                                 cameFrom |-> (startId :> NullId)])
             IN  [i \in 1..Len(ids) |-> parseTileId(ids[i])]


bfsPath(adj, start, goal) ==
    LET startId == toTileId(start)
        goalId  == toTileId(goal)
    IN  IF startId = goalId THEN <<start>>
        ELSE LET ids == bfsLoop(adj, goalId,
                                [queue    |-> <<startId>>,
                                 visited  |-> {startId},
                                 cameFrom |-> (startId :> NullId)])
             IN  [i \in 1..Len(ids) |-> parseTileId(ids[i])]

-----------------------------------------------------------------------------
(* commands.ts *)

moveTo(to) == [type |-> "MOVE_TO", tile |-> to]
lift(tile) == [type |-> "LIFT", tile |-> tile]
drop(tile) == [type |-> "DROP", tile |-> tile]

-----------------------------------------------------------------------------
(* expandSwap.ts *)

\* stands for Number.POSITIVE_INFINITY, which no distance equals
POSITIVE_INFINITY == -1

\* d < bestD on numbers that may be POSITIVE_INFINITY
lessThan(d, bestD) ==
    /\ d # POSITIVE_INFINITY
    /\ (bestD = POSITIVE_INFINITY \/ d < bestD)

neighbors4(tile, g) ==
    SelectSeq(<<Tile(tile.x + 1, tile.z), Tile(tile.x - 1, tile.z),
                Tile(tile.x, tile.z + 1), Tile(tile.x, tile.z - 1)>>,
              LAMBDA t : isInBounds(t, g))

\* distanceVisitLoop with a fault: a neighbour is given the distance of cur
RECURSIVE distanceVisitLoopFlat(_, _, _, _)
distanceVisitLoopFlat(ns, i, curD, st) ==
    IF i > Len(ns) THEN st
    ELSE LET nxt == ns[i]
         IN  IF nxt \in st.visited
             THEN distanceVisitLoopFlat(ns, i + 1, curD, st)
             ELSE distanceVisitLoopFlat(ns, i + 1, curD,
                      [queue   |-> Append(st.queue, nxt),
                       visited |-> st.visited \cup {nxt},
                       dist    |-> (nxt :> curD) @@ st.dist])

RECURSIVE distanceVisitLoop(_, _, _, _)
distanceVisitLoop(ns, i, curD, st) ==
    IF i > Len(ns) THEN st
    ELSE LET nxt == ns[i]
         IN  IF nxt \in st.visited
             THEN distanceVisitLoop(ns, i + 1, curD, st)
             ELSE distanceVisitLoop(ns, i + 1, curD,
                      [queue   |-> Append(st.queue, nxt),
                       visited |-> st.visited \cup {nxt},
                       dist    |-> (nxt :> (curD + 1)) @@ st.dist])

RECURSIVE distanceLoop(_, _, _)
distanceLoop(adj, goalId, st) ==
    IF st.queue = <<>> THEN POSITIVE_INFINITY
    ELSE LET cur     == Head(st.queue)
             curD    == IF cur \in DOMAIN st.dist THEN st.dist[cur] ELSE 0
             shifted == [st EXCEPT !.queue = Tail(st.queue)]
         IN  IF cur = goalId THEN curD
             ELSE distanceLoop(adj, goalId,
                               distanceVisitLoop(neighborsOf(adj, cur), 1, curD, shifted))

distance(adj, from, to) ==
    LET startId == toTileId(from)
        goalId  == toTileId(to)
    IN  IF startId = goalId THEN 0
        ELSE distanceLoop(adj, goalId,
                          [queue   |-> <<startId>>,
                           visited |-> {startId},
                           dist    |-> (startId :> 0)])

stableTileKey(t) == NumberToString(t.x) \o <<":">> \o NumberToString(t.z)

\* collation rank of a character of a tile key: punctuation sorts before digits
CharRank(c) == IF c = "-" THEN 0 ELSE IF c = ":" THEN 1 ELSE 2 + DigitValue(c)

\* localeCompare with a fault: the keys compared as numbers, x first and then z
compareAsNumbers(a, b) ==
    LET ta == parseTileId(a)
        tb == parseTileId(b)
    IN  IF ta.x < tb.x THEN -1
        ELSE IF ta.x > tb.x THEN 1
        ELSE IF ta.z < tb.z THEN -1
        ELSE IF ta.z > tb.z THEN 1
        ELSE 0

\* sign of a.localeCompare(b): -1, 0 or 1
RECURSIVE localeCompare(_, _)
localeCompare(a, b) ==
    IF a = <<>> /\ b = <<>> THEN 0
    ELSE IF a = <<>> THEN -1
    ELSE IF b = <<>> THEN 1
    ELSE IF CharRank(Head(a)) < CharRank(Head(b)) THEN -1
    ELSE IF CharRank(Head(a)) > CharRank(Head(b)) THEN 1
    ELSE localeCompare(Tail(a), Tail(b))

\* stable insertion of c into a list sorted by key
RECURSIVE insertSorted(_, _)
insertSorted(sorted, c) ==
    IF sorted = <<>> THEN <<c>>
    ELSE IF localeCompare(stableTileKey(c), stableTileKey(Head(sorted))) < 0
         THEN <<c>> \o sorted
         ELSE <<Head(sorted)>> \o insertSorted(Tail(sorted), c)

\* [...candidates].sort((a, b) => key(a).localeCompare(key(b)))
RECURSIVE sortByKey(_, _, _)
sortByKey(candidates, i, sorted) ==
    IF i > Len(candidates) THEN sorted
    ELSE sortByKey(candidates, i + 1, insertSorted(sorted, candidates[i]))

RECURSIVE pickClosestLoop(_, _, _, _, _, _)
pickClosestLoop(sorted, i, adjTransport, swapStart, best, bestD) ==
    IF i > Len(sorted)
    THEN IF bestD = POSITIVE_INFINITY THEN <<>> ELSE best
    ELSE LET c == sorted[i]
             d == distance(adjTransport, swapStart, c)
         IN  IF lessThan(d, bestD)
             THEN pickClosestLoop(sorted, i + 1, adjTransport, swapStart, <<c>>, d)
             ELSE pickClosestLoop(sorted, i + 1, adjTransport, swapStart, best, bestD)

\* pickClosest with a fault: bestD is never consulted, an unreachable candidate is picked too
pickClosestUnreachable(candidates, adjTransport, swapStart) ==
    LET sorted == sortByKey(candidates, 1, <<>>)
        p      == pickClosestLoop(sorted, 1, adjTransport, swapStart,
                                  <<>>, POSITIVE_INFINITY)
    IN  IF p = <<>> /\ sorted # <<>> THEN <<sorted[1]>> ELSE p

\* <<>> for null, <<tile>> for the tile picked
pickClosest(candidates, adjTransport, swapStart) ==
    pickClosestLoop(sortByKey(candidates, 1, <<>>), 1, adjTransport, swapStart,
                    <<>>, POSITIVE_INFINITY)

swapCandidates(g, bOrigin, towerSet) ==
    SelectSeq(neighbors4(bOrigin, g), LAMBDA t : toTileId(t) \notin towerSet)

\* expandSwap with a fault: without a second staging tile the first leg is still returned
expandSwapPartial(g, swapStart, aOrigin, bOrigin, adjTransport, towerSet) ==
    LET candidates == swapCandidates(g, bOrigin, towerSet)
        p1 == pickClosest(candidates, adjTransport, swapStart)
    IN  IF p1 = <<>> THEN <<>>
        ELSE LET s1 == p1[1]
                 s2Candidates == SelectSeq(candidates, LAMBDA t : ~tileEquals(t, s1))
                 p2 == pickClosest(s2Candidates, adjTransport, swapStart)
             IN  IF p2 = <<>> THEN <<moveTo(s1), drop(s1)>>
                 ELSE LET s2 == p2[1]
                      IN  <<moveTo(s1), drop(s1),
                            moveTo(bOrigin), lift(bOrigin),
                            moveTo(s2), drop(s2),
                            moveTo(s1), lift(s1),
                            moveTo(bOrigin), drop(bOrigin),
                            moveTo(s2), lift(s2),
                            moveTo(aOrigin), drop(aOrigin)>>

expandSwap(g, swapStart, aOrigin, bOrigin, adjTransport, towerSet) ==
    LET candidates == swapCandidates(g, bOrigin, towerSet)
        p1 == pickClosest(candidates, adjTransport, swapStart)
    IN  IF p1 = <<>> THEN <<>>
        ELSE LET s1 == p1[1]
                 s2Candidates == SelectSeq(candidates, LAMBDA t : ~tileEquals(t, s1))
                 p2 == pickClosest(s2Candidates, adjTransport, swapStart)
             IN  IF p2 = <<>> THEN <<>>
                 ELSE LET s2 == p2[1]
                      IN  <<moveTo(s1), drop(s1),
                            moveTo(bOrigin), lift(bOrigin),
                            moveTo(s2), drop(s2),
                            moveTo(s1), lift(s1),
                            moveTo(bOrigin), drop(bOrigin),
                            moveTo(s2), lift(s2),
                            moveTo(aOrigin), drop(aOrigin)>>

-----------------------------------------------------------------------------
(* App.tsx: state of the runner *)

Min(a, b) == IF a < b THEN a ELSE b

\* DEFAULT_GRID, with the bounded number of columns and rows
RunGrid == [cols |-> RunCols, rows |-> RunRows]

\* useState<Tile>({ x: 7, z: 5 }), kept inside the bounded grid
InitialDollyX == 7
InitialDollyZ == 5
InitialDollyTile == Tile(Min(InitialDollyX, RunCols - 1), Min(InitialDollyZ, RunRows - 1))

\* const baseEdges = useMemo(() => buildBaseEdges(grid), [grid])
baseEdgesRef == buildBaseEdges(RunGrid)

RunTiles == {Tile(x, z) : x \in 0..(RunCols - 1), z \in 0..(RunRows - 1)}

\* what the runner reads and writes, as one record: the grid of the App, its
\* memoised base edges, and the refs
Refs == [grid |-> RunGrid, baseEdges |-> baseEdgesRef,
         queue |-> queueRef, dollyTile |-> dollyTileRef, towers |-> towersRef,
         carrying |-> carryingRef, path |-> pathRef, towerSet |-> towerSetRef,
         adj |-> adjRef, adjTransport |-> adjTransportRef, kicks |-> kicks]

SetRefs(r) ==
    /\ queueRef' = r.queue
    /\ dollyTileRef' = r.dollyTile
    /\ towersRef' = r.towers
    /\ carryingRef' = r.carrying
    /\ pathRef' = r.path
    /\ towerSetRef' = r.towerSet
    /\ adjRef' = r.adj
    /\ adjTransportRef' = r.adjTransport
    /\ kicks' = r.kicks

\* the runtime mode with a fault: NORMAL whatever is carried
modeOfNormal(carrying) == "NORMAL"

\* const mode = carrying ? "TRANSPORT" : "NORMAL"
modeOf(carrying) == IF carrying # <<>> THEN "TRANSPORT" ELSE "NORMAL"

\* refreshRuntimeGraphs with a fault: the graphs are built from the tower set
\* of the refresh before
refreshRuntimeGraphsOldSet(r) ==
    LET ts == buildTowerSet(r.towers)
    IN  [r EXCEPT !.towerSet = ts,
                  !.adj = buildPrunedAdjacency(modeOf(r.carrying), r.grid, r.baseEdges,
                                               r.towerSet),
                  !.adjTransport = buildPrunedAdjacency("TRANSPORT", r.grid, r.baseEdges,
                                                        r.towerSet)]

refreshRuntimeGraphs(r) ==
    LET ts == buildTowerSet(r.towers)
    IN  [r EXCEPT !.towerSet = ts,
                  !.adj = buildPrunedAdjacency(modeOf(r.carrying), r.grid, r.baseEdges, ts),
                  !.adjTransport = buildPrunedAdjacency("TRANSPORT", r.grid, r.baseEdges, ts)]

\* popHead with a fault: slice(0, -1), the last command is taken off
popHeadLast(r) == [r EXCEPT !.queue = SubSeq(@, 1, Len(@) - 1)]

popHead(r) == [r EXCEPT !.queue = Tail(@)]

\* queueMicrotask(() => runNextRef.current())
kick(r) == [r EXCEPT !.kicks = @ + 1]

enqueue(r, cmds) ==
    IF Len(cmds) = 0 THEN r
    ELSE kick([r EXCEPT !.queue = @ \o cmds])

tileHasTower(tile, list) == \E i \in 1..Len(list) : tileEquals(list[i], tile)

\* tryRewriteWithMove with a fault: the command is rewritten without the test
\* that its tile can be reached
tryRewriteWithMoveAlways(r, target, cmd) ==
    kick([r EXCEPT !.queue = <<moveTo(target), cmd>> \o Tail(r.queue)])

\* tryRewriteWithMove with a fault: the move takes the place of the command
tryRewriteWithMoveOnly(r, target, cmd) ==
    LET from     == r.dollyTile
        nextPath == bfsPath(r.adj, from, target)
    IN  IF Len(nextPath) < 2 /\ ~tileEquals(from, target)
        THEN kick(popHead(r))
        ELSE kick([r EXCEPT !.queue = <<moveTo(target)>> \o Tail(r.queue)])

tryRewriteWithMove(r, target, cmd) ==
    LET from     == r.dollyTile
        nextPath == bfsPath(r.adj, from, target)
    IN  IF Len(nextPath) < 2 /\ ~tileEquals(from, target)
        THEN kick(popHead(r))
        ELSE kick([r EXCEPT !.queue = <<moveTo(target), cmd>> \o Tail(r.queue)])

\* runMoveTo with a fault: a move to the agent's own tile commits the one-tile path
runMoveToCommitsTrivial(r, current) ==
    LET from == r.dollyTile
        to   == current.tile
        nextPath == bfsPath(r.adj, from, to)
    IN  IF Len(nextPath) < 2 /\ ~tileEquals(from, to) THEN kick(popHead(r))
        ELSE [popHead(r) EXCEPT !.path = nextPath]

\* runMoveTo with a fault: the committed path leaves out the agent's own tile
runMoveToSliced(r, current) ==
    LET from == r.dollyTile
        to   == current.tile
    IN  IF tileEquals(from, to) THEN kick(popHead(r))
        ELSE LET nextPath == bfsPath(r.adj, from, to)
             IN  IF Len(nextPath) < 2 THEN kick(popHead(r))
                 ELSE [popHead(r) EXCEPT !.path = Tail(nextPath)]

\* runMoveTo with a fault: the path is searched in the adjacency of all base edges
runMoveToUnpruned(r, current) ==
    LET from == r.dollyTile
        to   == current.tile
    IN  IF tileEquals(from, to) THEN kick(popHead(r))
        ELSE LET nextPath == bfsPath(edgesToAdjacency(r.grid, r.baseEdges), from, to)
             IN  IF Len(nextPath) < 2 THEN kick(popHead(r))
                 ELSE [popHead(r) EXCEPT !.path = nextPath]

\* runMoveTo with a fault: with no path found, the agent is sent straight to
\* the tile
runMoveToStraight(r, current) ==
    LET from == r.dollyTile
        to   == current.tile
    IN  IF tileEquals(from, to) THEN kick(popHead(r))
        ELSE LET nextPath == bfsPath(r.adj, from, to)
             IN  IF Len(nextPath) < 2 THEN [popHead(r) EXCEPT !.path = <<from, to>>]
                 ELSE [popHead(r) EXCEPT !.path = nextPath]

runMoveTo(r, current) ==
    LET from == r.dollyTile
        to   == current.tile
    IN  IF tileEquals(from, to) THEN kick(popHead(r))
        ELSE LET nextPath == bfsPath(r.adj, from, to)
             IN  IF Len(nextPath) < 2 THEN kick(popHead(r))
                 ELSE [popHead(r) EXCEPT !.path = nextPath]

\* runLift with a fault: the tower stays in the list while it is carried
runLiftKeepsTower(r, current) ==
    LET at     == r.dollyTile
        target == current.tile
    IN  IF ~tileEquals(at, target) THEN tryRewriteWithMove(r, target, current)
        ELSE IF r.carrying # <<>> THEN kick(popHead(r))
        ELSE IF ~tileHasTower(target, r.towers) THEN kick(popHead(r))
        ELSE kick(popHead(refreshRuntimeGraphs([r EXCEPT !.carrying = <<target>>])))

\* runLift with a fault: the filter keeps the target and drops the others
runLiftInverted(r, current) ==
    LET at     == r.dollyTile
        target == current.tile
    IN  IF ~tileEquals(at, target) THEN tryRewriteWithMove(r, target, current)
        ELSE IF r.carrying # <<>> THEN kick(popHead(r))
        ELSE IF ~tileHasTower(target, r.towers) THEN kick(popHead(r))
        ELSE LET nextTowers == SelectSeq(r.towers, LAMBDA t : tileEquals(t, target))
             IN  kick(popHead(refreshRuntimeGraphs(
                     [r EXCEPT !.towers = nextTowers, !.carrying = <<target>>])))

\* runLift with a fault: the graphs are not refreshed after the tower is taken
runLiftStale(r, current) ==
    LET at     == r.dollyTile
        target == current.tile
    IN  IF ~tileEquals(at, target) THEN tryRewriteWithMove(r, target, current)
        ELSE IF r.carrying # <<>> THEN kick(popHead(r))
        ELSE IF ~tileHasTower(target, r.towers) THEN kick(popHead(r))
        ELSE LET nextTowers == SelectSeq(r.towers, LAMBDA t : ~tileEquals(t, target))
             IN  kick(popHead([r EXCEPT !.towers = nextTowers, !.carrying = <<target>>]))

\* runLift with a fault: a LIFT is carried out where no tower stands
runLiftUnchecked(r, current) ==
    LET at     == r.dollyTile
        target == current.tile
    IN  IF ~tileEquals(at, target) THEN tryRewriteWithMove(r, target, current)
        ELSE IF r.carrying # <<>> THEN kick(popHead(r))
        ELSE LET nextTowers == SelectSeq(r.towers, LAMBDA t : ~tileEquals(t, target))
             IN  kick(popHead(refreshRuntimeGraphs(
                     [r EXCEPT !.towers = nextTowers, !.carrying = <<target>>])))

runLift(r, current) ==
    LET at     == r.dollyTile
        target == current.tile
    IN  IF ~tileEquals(at, target) THEN tryRewriteWithMove(r, target, current)
        ELSE IF r.carrying # <<>> THEN kick(popHead(r))
        ELSE IF ~tileHasTower(target, r.towers) THEN kick(popHead(r))
        ELSE LET nextTowers == SelectSeq(r.towers, LAMBDA t : ~tileEquals(t, target))
             IN  kick(popHead(refreshRuntimeGraphs(
                     [r EXCEPT !.towers = nextTowers, !.carrying = <<target>>])))

\* runDrop with a fault: the graphs are refreshed before the tower is put down
runDropEarlyRefresh(r, current) ==
    LET at     == r.dollyTile
        target == current.tile
    IN  IF ~tileEquals(at, target) THEN tryRewriteWithMove(r, target, current)
        ELSE IF r.carrying = <<>> THEN kick(popHead(r))
        ELSE IF tileHasTower(target, r.towers) THEN kick(popHead(r))
        ELSE LET nextTowers == Append(r.towers, target)
             IN  kick(popHead([refreshRuntimeGraphs([r EXCEPT !.carrying = <<>>])
                                  EXCEPT !.towers = nextTowers]))

\* runDrop with a fault: a DROP is carried out with nothing carried
runDropUnchecked(r, current) ==
    LET at     == r.dollyTile
        target == current.tile
    IN  IF ~tileEquals(at, target) THEN tryRewriteWithMove(r, target, current)
        ELSE IF tileHasTower(target, r.towers) THEN kick(popHead(r))
        ELSE LET nextTowers == Append(r.towers, target)
             IN  kick(popHead(refreshRuntimeGraphs(
                     [r EXCEPT !.towers = nextTowers, !.carrying = <<>>])))

\* runDrop with a fault: the tower put down is still carried
runDropKeepsCarrying(r, current) ==
    LET at     == r.dollyTile
        target == current.tile
    IN  IF ~tileEquals(at, target) THEN tryRewriteWithMove(r, target, current)
        ELSE IF r.carrying = <<>> THEN kick(popHead(r))
        ELSE IF tileHasTower(target, r.towers) THEN kick(popHead(r))
        ELSE kick(popHead(refreshRuntimeGraphs([r EXCEPT !.towers = Append(r.towers, target)])))

runDrop(r, current) ==
    LET at     == r.dollyTile
        target == current.tile
    IN  IF ~tileEquals(at, target) THEN tryRewriteWithMove(r, target, current)
        ELSE IF r.carrying = <<>> THEN kick(popHead(r))
        ELSE IF tileHasTower(target, r.towers) THEN kick(popHead(r))
        ELSE LET nextTowers == Append(r.towers, target)
             IN  kick(popHead(refreshRuntimeGraphs(
                     [r EXCEPT !.towers = nextTowers, !.carrying = <<>>])))

\* runNext with a fault: the test of a pending path is left out
runNextUnguarded(r0) ==
    LET r == refreshRuntimeGraphs(r0)
    IN  IF Len(r.queue) = 0 THEN r
        ELSE LET current == r.queue[1]
             IN  IF current.type = "MOVE_TO" THEN runMoveTo(r, current)
                 ELSE IF current.type = "LIFT" THEN runLift(r, current)
                 ELSE runDrop(r, current)

\* handleArrive with a fault: no run is queued after the arrival
handleArriveNoKick(r, tile) ==
    [r EXCEPT !.dollyTile = tile, !.path = <<>>]

\* one run of the runNext microtask
runNext(r0) ==
    IF Len(r0.path) >= 2 THEN r0
    ELSE LET r == refreshRuntimeGraphs(r0)
         IN  IF Len(r.queue) = 0 THEN r
             ELSE LET current == r.queue[1]
                  IN  IF current.type = "MOVE_TO" THEN runMoveTo(r, current)
                      ELSE IF current.type = "LIFT" THEN runLift(r, current)
                      ELSE runDrop(r, current)

handleArrive(r, tile) == kick([r EXCEPT !.dollyTile = tile, !.path = <<>>])

\* <SimViewCanvas onArrive={handleArrive}/> and <WorldViewCanvas onArrive={handleArrive}/>:
\* each canvas mounts a Dolly of its own, with the same path and speed
Dollies == {"SimViewCanvas", "WorldViewCanvas"}

\* the calls onArrive(path[path.length - 1]) of n Dollies that reach the end of
\* the path in the same frame, one after the other and before any microtask
RECURSIVE onArriveEach(_, _, _)
onArriveEach(r, tile, n) ==
    IF n = 0 THEN r
    ELSE handleArrive(onArriveEach(r, tile, n - 1), tile)

\* actionsDisabled with a fault: the queue is not looked at
actionsDisabledMoving(r) == Len(r.path) >= 2

\* const isMoving = path.length >= 2; actionsDisabled = isMoving || queue.length > 0
actionsDisabled(r) == Len(r.path) >= 2 \/ Len(r.queue) > 0

handleTileClick(r, tile) ==
    IF actionsDisabled(r) THEN r ELSE enqueue(r, <<moveTo(tile)>>)

IntentTypes == {"MOVE_TO", "LIFT_AT", "DROP_AT", "SWAP_WITH"}

onHoverIntent(r, intent) ==
    IF actionsDisabled(r) THEN r
    ELSE IF intent.type = "MOVE_TO" THEN enqueue(r, <<moveTo(intent.tile)>>)
    ELSE IF intent.type = "LIFT_AT" THEN enqueue(r, <<lift(intent.tile)>>)
    ELSE IF intent.type = "DROP_AT" THEN enqueue(r, <<drop(intent.tile)>>)
    ELSE IF r.carrying = <<>> THEN r
    ELSE LET aOrigin == r.carrying[1]
             bOrigin == intent.tile
             g == refreshRuntimeGraphs(r)
         IN  IF toTileId(bOrigin) \notin g.towerSet THEN g
             ELSE enqueue(g, expandSwap(g.grid, g.dollyTile, aOrigin, bOrigin,
                                        g.adjTransport, g.towerSet))

-----------------------------------------------------------------------------
(* The runner as a state machine.  A microtask runs before the next event   *)
(* is delivered, so events are taken only when no runNext is queued.        *)

NoCall == [name |-> "none"]

NoSwap == [active |-> FALSE]

NoRun == [active |-> FALSE, blocked |-> FALSE]

NoArrival == [calls |-> 0, idle |-> 0]

\* what n calls of handleArrive(tile) in one frame found, starting from refs r:
\* the path that was pending, and how many calls found no path pending
ArrivalsAfter(r, tile, n) ==
    [calls |-> n,
     idle  |-> Cardinality({k \in 1..n : Len(onArriveEach(r, tile, k - 1).path) < 2}),
     tile  |-> tile,
     path  |-> r.path]

NoRewrite == [phase |-> "none"]

\* what a run of runNext that reaches a command found in the refs r
\* (blocked: the run returned at once, a path being pending)
RanAfter(r) ==
    IF Len(r.path) >= 2 THEN [NoRun EXCEPT !.blocked = TRUE]
    ELSE IF Len(r.queue) = 0 THEN NoRun
    ELSE [active |-> TRUE, blocked |-> FALSE, queue |-> r.queue,
          dollyTile |-> r.dollyTile, towers |-> r.towers, carrying |-> r.carrying]

\* rewrite after a run of runNext took the refs from r to r2.  A head replaced
\* by a move and itself is "rewritten" ("again" if it was rewritten before);
\* a rewritten command leaving the queue is "resolved" when the agent stands
\* on its tile and "lost" when not.
RewriteAfter(r, r2) ==
    IF Len(r.path) >= 2 \/ Len(r.queue) = 0 THEN rewrite
    ELSE LET current == r.queue[1]
         IN  IF /\ current.type # "MOVE_TO"
                /\ r2.queue = <<moveTo(current.tile), current>> \o Tail(r.queue)
             THEN [phase |-> IF rewrite.phase = "rewritten" THEN "again" ELSE "rewritten",
                   cmd |-> current, rest |-> Tail(r.queue)]
             ELSE IF rewrite.phase # "rewritten" THEN NoRewrite
             ELSE IF current = rewrite.cmd /\ r2.queue = Tail(r.queue)
             THEN [rewrite EXCEPT !.phase = IF tileEquals(r.dollyTile, current.tile)
                                            THEN "resolved" ELSE "lost"]
             ELSE rewrite

\* the placed towers as pairs of tower and tile
Placed(ids, towers) == {<<ids[i], towers[i]>> : i \in 1..Len(towers)}

\* the tower standing on tile, 0 if none
TowerOn(ids, towers, tile) ==
    IF \E i \in 1..Len(towers) : towers[i] = tile
    THEN ids[CHOOSE i \in 1..Len(towers) : towers[i] = tile]
    ELSE 0

\* towerIds after a run of runNext took the refs from r to r2: a LIFT removed
\* one tile of the list, a DROP appended one
IdsAfter(r, r2) ==
    IF Len(r2.towers) < Len(r.towers)
    THEN LET kept == {i \in 1..Len(r.towers) : ~tileEquals(r.towers[i], r2.carrying[1])}
         IN  SelectSeq([i \in 1..Len(r.towers) |-> IF i \in kept THEN towerIds[i] ELSE 0],
                       LAMBDA id : id # 0)
    ELSE IF Len(r2.towers) > Len(r.towers) THEN Append(towerIds, carriedId)
    ELSE towerIds

CarriedAfter(r, r2) ==
    IF Len(r2.towers) < Len(r.towers)
    THEN TowerOn(towerIds, r.towers, r2.carrying[1])
    ELSE IF Len(r2.towers) > Len(r.towers) THEN 0
    ELSE carriedId

\* what is remembered of the intent that took the refs from r to r2
SwapAfter(r, r2, intent) ==
    IF r2.queue = r.queue THEN swap
    ELSE IF intent.type # "SWAP_WITH" THEN NoSwap
    ELSE [active |-> TRUE, aOrigin |-> r.carrying[1], bOrigin |-> intent.tile,
          a |-> carriedId, b |-> TowerOn(towerIds, r.towers, intent.tile),
          placed |-> Placed(towerIds, r.towers)]

Init ==
    LET towers == generateTowerTiles(RunGrid, DefaultMaxTowers)
        ts     == buildTowerSet(towers)
    IN  /\ queueRef = <<>>
        /\ dollyTileRef = InitialDollyTile
        /\ towersRef = towers
        /\ carryingRef = <<>>
        /\ pathRef = <<>>
        /\ towerSetRef = ts
        /\ adjRef = buildPrunedAdjacency("NORMAL", RunGrid, baseEdgesRef, ts)
        /\ adjTransportRef = buildPrunedAdjacency("TRANSPORT", RunGrid, baseEdgesRef, ts)
        /\ kicks = 0
        /\ intents = 0
        /\ towerIds = [i \in 1..Len(towers) |-> i]
        /\ carriedId = 0
        /\ swap = NoSwap
        /\ ran = NoRun
        /\ rewrite = NoRewrite
        /\ arrivals = NoArrival
        /\ fn = NoCall
        /\ out = <<>>

RunNext ==
    /\ kicks > 0
    /\ LET r == runNext([Refs EXCEPT !.kicks = @ - 1])
       IN  /\ SetRefs(r)
           /\ towerIds' = IdsAfter(Refs, r)
           /\ carriedId' = CarriedAfter(Refs, r)
           /\ ran' = RanAfter(Refs)
           /\ rewrite' = RewriteAfter(Refs, r)
    /\ arrivals' = NoArrival
    /\ UNCHANGED <<intents, swap, fn, out>>

\* a frame in which the Dolly of one canvas, or of both, reaches the end of the
\* path: useFrame of each calls onArrive once, its arrivedRef being unset
HandleArrive ==
    /\ kicks = 0
    /\ Len(pathRef) >= 2
    /\ \E arriving \in (SUBSET Dollies) \ {{}} :
          LET tile == pathRef[Len(pathRef)]
          IN  /\ SetRefs(onArriveEach(Refs, tile, Cardinality(arriving)))
              /\ arrivals' = ArrivalsAfter(Refs, tile, Cardinality(arriving))
    /\ ran' = NoRun
    /\ UNCHANGED <<intents, towerIds, carriedId, swap, rewrite, fn, out>>

HandleTileClick ==
    /\ kicks = 0
    /\ intents < MaxIntents
    /\ \E tile \in RunTiles :
          LET r == handleTileClick(Refs, tile)
          IN  /\ SetRefs(r)
              /\ intents' = IF r = Refs THEN intents ELSE intents + 1
              /\ swap' = SwapAfter(Refs, r, [type |-> "MOVE_TO", tile |-> tile])
              /\ ran' = IF r = Refs THEN ran ELSE NoRun
              /\ rewrite' = IF r = Refs THEN rewrite ELSE NoRewrite
              /\ arrivals' = IF r = Refs THEN arrivals ELSE NoArrival
    /\ UNCHANGED <<towerIds, carriedId, fn, out>>

\* one of the given intents is submitted, at most bound of them in a run
HoverIntent(given, bound) ==
    /\ kicks = 0
    /\ intents < bound
    /\ \E intent \in given :
          LET r == onHoverIntent(Refs, intent)
          IN  /\ SetRefs(r)
              /\ intents' = IF r = Refs THEN intents ELSE intents + 1
              /\ swap' = SwapAfter(Refs, r, intent)
              /\ ran' = IF r = Refs THEN ran ELSE NoRun
              /\ rewrite' = IF r = Refs THEN rewrite ELSE NoRewrite
              /\ arrivals' = IF r = Refs THEN arrivals ELSE NoArrival
    /\ UNCHANGED <<towerIds, carriedId, fn, out>>

OnHoverIntent ==
    HoverIntent({[type |-> type, tile |-> tile] : type \in IntentTypes, tile \in RunTiles},
                MaxIntents)

Next == RunNext \/ HandleArrive \/ HandleTileClick \/ OnHoverIntent

Spec == Init /\ [][Next]_vars

(* The runner over fewer intents, with its scheduling: a queued microtask  *)
(* runs, and the agent reaches the end of a committed path.               *)

OnFairIntent ==
    HoverIntent({[type |-> type, tile |-> tile] : type \in IntentTypes, tile \in RunTiles},
                MaxFairIntents)

FairNext == RunNext \/ HandleArrive \/ OnFairIntent

\* WF_vars(RunNext), its ENABLED written out: RunNext can run exactly when a
\* microtask is queued, and a run always takes that microtask off
RunNextFair == []<>(kicks = 0) \/ []<><<RunNext>>_vars

FairSpec == Init /\ [][FairNext]_vars /\ RunNextFair /\ WF_vars(HandleArrive)

(* The runner driven through the hover menus, by lifts, drops and swaps *)

\* the buttons of HoverTowerControls: Lift on a tower when nothing is carried,
\* Swap on a tower other than the carried one's origin
HoverTowerControls(r) ==
    {[type |-> "LIFT_AT", tile |-> t] :
        t \in {u \in RunTiles : tileHasTower(u, r.towers) /\ r.carrying = <<>>}}
    \cup
    {[type |-> "SWAP_WITH", tile |-> t] :
        t \in {u \in RunTiles : /\ tileHasTower(u, r.towers)
                                 /\ r.carrying # <<>>
                                 /\ ~tileEquals(u, r.carrying[1])}}

\* the buttons of HoverTileControls: Move and Drop on a tile without a tower,
\* while a tower is carried
HoverTileControls(r) ==
    {[type |-> type, tile |-> t] :
        type \in {"MOVE_TO", "DROP_AT"},
        t \in {u \in RunTiles : r.carrying # <<>> /\ ~tileHasTower(u, r.towers)}}

OnTowerIntent ==
    HoverIntent({i \in HoverTowerControls(Refs) \cup HoverTileControls(Refs) :
                    i.type # "MOVE_TO"},
                MaxSwapIntents)

TowerNext == RunNext \/ HandleArrive \/ OnTowerIntent

TowerSpec == Init /\ [][TowerNext]_vars

-----------------------------------------------------------------------------
(* Harness of the pure functions: Init draws the arguments of one call,     *)
(* the action performs the call and stores what it returned.                *)

RunnerIdle ==
    /\ queueRef = <<>>
    /\ dollyTileRef = InitialDollyTile
    /\ towersRef = <<>>
    /\ carryingRef = <<>>
    /\ pathRef = <<>>
    /\ towerSetRef = {}
    /\ adjRef = <<>>
    /\ adjTransportRef = <<>>
    /\ kicks = 0
    /\ intents = 0
    /\ towerIds = <<>>
    /\ carriedId = 0
    /\ swap = NoSwap
    /\ ran = NoRun
    /\ rewrite = NoRewrite
    /\ arrivals = NoArrival

RunnerUnchanged ==
    UNCHANGED <<queueRef, dollyTileRef, towersRef, carryingRef, pathRef,
                towerSetRef, adjRef, adjTransportRef, kicks, intents,
                towerIds, carriedId, swap, ran, rewrite, arrivals>>

GridTiles(g) == {Tile(x, z) : x \in 0..(g.cols - 1), z \in 0..(g.rows - 1)}

PureGrids == {[cols |-> c, rows |-> r] : c \in 1..MaxSide, r \in 1..MaxSide}

RECURSIVE SubsetsUpTo(_, _)
SubsetsUpTo(S, k) ==
    IF k = 0 THEN {{}}
    ELSE LET P == SubsetsUpTo(S, k - 1)
         IN  P \cup {p \cup {a} : p \in P, a \in S}

\* the tower sets of at most MaxPlaced towers on grid g
TowerSets(g) == {{toTileId(t) : t \in S} : S \in SubsetsUpTo(GridTiles(g), MaxPlaced)}

\* the tiles a hand-made adjacency map may name
NodeTiles == {Tile(x, 0) : x \in 0..(MaxNodes - 1)}
NodeIds == {toTileId(t) : t \in NodeTiles}

RECURSIVE SeqsUpTo(_, _)
SeqsUpTo(S, k) ==
    IF k = 0 THEN {<<>>}
    ELSE LET P == SeqsUpTo(S, k - 1)
         IN  P \cup {Append(p, a) : p \in P, a \in S}

\* every map from some of the node ids to a list of at most MaxDegree node ids
HandMadeAdjacencies ==
    UNION {[D -> SeqsUpTo(NodeIds, MaxDegree)] : D \in SUBSET NodeIds}

(* bfsPath on the adjacencies of small grids *)
InitBfsGrid ==
    /\ RunnerIdle
    /\ out = <<>>
    /\ \E g \in PureGrids : \E ts \in TowerSets(g) : \E mode \in Modes :
       \E start \in GridTiles(g), goal \in GridTiles(g) :
          fn = [name |-> "bfsPath", done |-> FALSE,
                adj |-> buildPrunedAdjacency(mode, g, buildBaseEdges(g), ts),
                start |-> start, goal |-> goal]

(* bfsPath on hand-made adjacency maps: asymmetric, partial, with repeats *)
InitBfsHandMade ==
    /\ RunnerIdle
    /\ out = <<>>
    /\ \E adj \in HandMadeAdjacencies : \E start \in NodeTiles, goal \in NodeTiles :
          fn = [name |-> "bfsPath", done |-> FALSE,
                adj |-> adj, start |-> start, goal |-> goal]

CallBfsPath ==
    /\ fn.name = "bfsPath"
    /\ ~fn.done
    /\ out' = bfsPath(fn.adj, fn.start, fn.goal)
    /\ fn' = [fn EXCEPT !.done = TRUE]
    /\ RunnerUnchanged

InitBfs == InitBfsGrid \/ InitBfsHandMade

BfsSpec == InitBfs /\ [][CallBfsPath]_vars

(* buildPrunedAdjacency on small grids *)
InitAdj ==
    /\ RunnerIdle
    /\ out = <<>>
    /\ \E g \in PureGrids : \E ts \in TowerSets(g) : \E mode \in Modes :
          fn = [name |-> "buildPrunedAdjacency", done |-> FALSE,
                mode |-> mode, grid |-> g, towerSet |-> ts]

CallBuildPrunedAdjacency ==
    /\ fn.name = "buildPrunedAdjacency"
    /\ ~fn.done
    /\ out' = buildPrunedAdjacency(fn.mode, fn.grid, buildBaseEdges(fn.grid), fn.towerSet)
    /\ fn' = [fn EXCEPT !.done = TRUE]
    /\ RunnerUnchanged

AdjSpec == InitAdj /\ [][CallBuildPrunedAdjacency]_vars

-----------------------------------------------------------------------------
(* Properties of the pathfinder *)

ListSet(list) == {list[i] : i \in 1..Len(list)}

\* the ids one step away from a set of ids
Successors(adj, S) == UNION {ListSet(neighborsOf(adj, id)) : id \in S}

\* graph distance by layers of sets, POSITIVE_INFINITY when goalId is never met
RECURSIVE LayerDistance(_, _, _, _, _)
LayerDistance(adj, frontier, seen, goalId, d) ==
    IF goalId \in frontier THEN d
    ELSE IF frontier = {} THEN POSITIVE_INFINITY
    ELSE LET nxt == Successors(adj, frontier) \ seen
         IN  LayerDistance(adj, nxt, seen \cup nxt, goalId, d + 1)

TrueDistance(adj, from, to) ==
    LayerDistance(adj, {toTileId(from)}, {toTileId(from)}, toTileId(to), 0)

BfsDone == fn.name = "bfsPath" /\ fn.done

\* C5: when goal is reachable from start, the edges of the path bfsPath returns
\* (its length minus one) number the shortest-path distance from start to goal
C5_BfsOptimal ==
    (BfsDone /\ TrueDistance(fn.adj, fn.start, fn.goal) # POSITIVE_INFINITY)
        => Len(out) - 1 = TrueDistance(fn.adj, fn.start, fn.goal)

\* a path of three edges was returned although the start has two neighbours to choose from
C5_Witness ==
    /\ BfsDone
    /\ Len(out) = 4
    /\ Cardinality(ListSet(neighborsOf(fn.adj, toTileId(fn.start)))) >= 2

\* C6: a non-empty path begins with start, ends with goal, holds no tile twice,
\* and each tile is followed by one of its neighbours in adj
C6_PathWellFormed ==
    (BfsDone /\ out # <<>>)
        => /\ out[1] = fn.start
           /\ out[Len(out)] = fn.goal
           /\ \A i, j \in 1..Len(out) : i # j => out[i] # out[j]
           /\ \A i \in 1..(Len(out) - 1) :
                 toTileId(out[i + 1]) \in ListSet(neighborsOf(fn.adj, toTileId(out[i])))

C6_Witness == BfsDone /\ Len(out) >= 3 /\ fn.start # fn.goal

\* C7: for start different from goal, the path is empty exactly when goal cannot
\* be reached from start by following adj
C7_EmptyIffUnreachable ==
    (BfsDone /\ fn.start # fn.goal)
        => (out = <<>> <=> TrueDistance(fn.adj, fn.start, fn.goal) = POSITIVE_INFINITY)

\* no path, from a start that has no entry in adj
C7_Witness ==
    /\ BfsDone
    /\ fn.start # fn.goal
    /\ out = <<>>
    /\ toTileId(fn.start) \notin DOMAIN fn.adj
    /\ toTileId(fn.goal) \in DOMAIN fn.adj

\* C8: bfsPath(adj, t, t) is the one-element path of t
C8_TrivialPath == (BfsDone /\ fn.start = fn.goal) => out = <<fn.start>>

\* the trivial call on a tile without neighbours
C8_Witness ==
    /\ BfsDone
    /\ fn.start = fn.goal
    /\ toTileId(fn.start) \in DOMAIN fn.adj
    /\ fn.adj[toTileId(fn.start)] = <<>>
    /\ out = <<fn.start>>

-----------------------------------------------------------------------------
(* Properties of the pruned adjacency *)

AdjDone == fn.name = "buildPrunedAdjacency" /\ fn.done

\* C9: the adjacency is symmetric: b is listed for a exactly when a is listed for b
C9_AdjacencySymmetric ==
    AdjDone =>
        /\ \A a \in DOMAIN out : ListSet(out[a]) \subseteq DOMAIN out
        /\ \A a, b \in DOMAIN out : b \in ListSet(out[a]) <=> a \in ListSet(out[b])

\* an adjacency with an edge kept and an edge pruned
C9_Witness ==
    /\ AdjDone
    /\ fn.towerSet # {}
    /\ \E a \in DOMAIN out : out[a] # <<>>
    /\ \E i \in 1..Len(buildBaseEdges(fn.grid)) :
          LET e == buildBaseEdges(fn.grid)[i] IN e.b \notin ListSet(out[e.a])

\* C10: the adjacency has exactly rows*cols keys, the ids of the in-bounds tiles
C10_AdjacencyComplete ==
    AdjDone =>
        /\ DOMAIN out = {toTileId(t) : t \in GridTiles(fn.grid)}
        /\ Cardinality(DOMAIN out) = fn.grid.rows * fn.grid.cols

\* pruning left a tile without neighbours on a grid of several tiles
C10_Witness ==
    /\ AdjDone
    /\ fn.grid.rows * fn.grid.cols > 1
    /\ \E a \in DOMAIN out : out[a] = <<>>
    /\ \E a \in DOMAIN out : out[a] # <<>>

-----------------------------------------------------------------------------
(* onHoverIntent with a SWAP_WITH intent, on an idle runner that carries a  *)
(* tower: Init draws the grid, the placed towers, the carried tower's       *)
(* origin, the agent's tile and the hovered tile.                           *)

\* the tiles of S in the order of allTiles(g)
TilesInOrder(g, S) == SelectSeq(allTiles(g), LAMBDA t : t \in S)

\* the refs of an idle runner on grid g, as runNext leaves them
IdleRefs(g, towers, carrying, dollyTile) ==
    refreshRuntimeGraphs(
        [grid |-> g, baseEdges |-> buildBaseEdges(g),
         queue |-> <<>>, dollyTile |-> dollyTile, towers |-> towers,
         carrying |-> carrying, path |-> <<>>, towerSet |-> {},
         adj |-> <<>>, adjTransport |-> <<>>, kicks |-> 0])

LongGrid == [cols |-> 2, rows |-> LongRows]

InitSwapSmall ==
    /\ RunnerIdle
    /\ out = <<>>
    /\ \E g \in PureGrids : \E S \in SubsetsUpTo(GridTiles(g), MaxPlaced) :
       \E aOrigin \in GridTiles(g) \ S, swapStart \in GridTiles(g) \ S :
       \E bOrigin \in GridTiles(g) :
          fn = [name |-> "onHoverIntent", done |-> FALSE,
                refs |-> IdleRefs(g, TilesInOrder(g, S), <<aOrigin>>, swapStart),
                intent |-> [type |-> "SWAP_WITH", tile |-> bOrigin]]

InitSwapLong ==
    /\ RunnerIdle
    /\ out = <<>>
    /\ \E bOrigin \in GridTiles(LongGrid) :
       \E aOrigin \in GridTiles(LongGrid) \ {bOrigin} :
       \E swapStart \in GridTiles(LongGrid) \ {bOrigin} :
          fn = [name |-> "onHoverIntent", done |-> FALSE,
                refs |-> IdleRefs(LongGrid, <<bOrigin>>, <<aOrigin>>, swapStart),
                intent |-> [type |-> "SWAP_WITH", tile |-> bOrigin]]

InitSwap == InitSwapSmall \/ InitSwapLong

CallOnHoverIntent ==
    /\ fn.name = "onHoverIntent"
    /\ ~fn.done
    /\ out' = onHoverIntent(fn.refs, fn.intent)
    /\ fn' = [fn EXCEPT !.done = TRUE]
    /\ RunnerUnchanged

SwapIntentSpec == InitSwap /\ [][CallOnHoverIntent]_vars

-----------------------------------------------------------------------------
(* Properties of the swap planner *)

\* the call reached expandSwap: the hovered tile holds a tower
SwapPlanned ==
    /\ fn.name = "onHoverIntent"
    /\ fn.done
    /\ toTileId(fn.intent.tile) \in fn.refs.towerSet

\* the in-bounds 4-neighbours of b that hold no tower
FreeNeighbours(g, b, towerSet) ==
    {t \in GridTiles(g) :
        /\ \/ (t.z = b.z /\ (t.x = b.x + 1 \/ t.x = b.x - 1))
           \/ (t.x = b.x /\ (t.z = b.z + 1 \/ t.z = b.z - 1))
        /\ toTileId(t) \notin towerSet}

\* the code unit of a character of a tile id
CodeUnit(c) == IF c = "-" THEN 45 ELSE IF c = ":" THEN 58 ELSE 48 + DigitValue(c)

\* a comes before b in the lexicographic order of strings
LexLess(a, b) ==
    \E k \in 1..(Len(a) + 1) :
        /\ \A i \in 1..(k - 1) : i <= Len(b) /\ a[i] = b[i]
        /\ k <= Len(b)
        /\ (k <= Len(a) => CodeUnit(a[k]) < CodeUnit(b[k]))

\* s is the candidate of C the spec selects: at finite distance from start, no
\* candidate is nearer, and of the candidates as near s has the smallest id
Selected(C, adj, start, s) ==
    /\ s \in C
    /\ TrueDistance(adj, start, s) # POSITIVE_INFINITY
    /\ \A c \in C \ {s} :
          LET dc == TrueDistance(adj, start, c)
              ds == TrueDistance(adj, start, s)
          IN  \/ dc = POSITIVE_INFINITY
              \/ ds < dc
              \/ (ds = dc /\ LexLess(toTileId(s), toTileId(c)))

\* the 14 commands of a swap through the staging tiles s1 and s2
SwapCommands(s1, s2, aOrigin, bOrigin) ==
    <<[type |-> "MOVE_TO", tile |-> s1],      [type |-> "DROP", tile |-> s1],
      [type |-> "MOVE_TO", tile |-> bOrigin], [type |-> "LIFT", tile |-> bOrigin],
      [type |-> "MOVE_TO", tile |-> s2],      [type |-> "DROP", tile |-> s2],
      [type |-> "MOVE_TO", tile |-> s1],      [type |-> "LIFT", tile |-> s1],
      [type |-> "MOVE_TO", tile |-> bOrigin], [type |-> "DROP", tile |-> bOrigin],
      [type |-> "MOVE_TO", tile |-> s2],      [type |-> "LIFT", tile |-> s2],
      [type |-> "MOVE_TO", tile |-> aOrigin], [type |-> "DROP", tile |-> aOrigin]>>

\* C2: expandSwap returns the empty sequence or the 14 commands of a swap through
\* two tiles s1 and s2, in that order; never another length, never a prefix
C2_SwapShape ==
    SwapPlanned =>
        \/ out.queue = <<>>
        \/ /\ Len(out.queue) = 14
           /\ \E s1 \in GridTiles(fn.refs.grid), s2 \in GridTiles(fn.refs.grid) :
                 out.queue = SwapCommands(s1, s2, fn.refs.carrying[1], fn.intent.tile)

\* a swap was planned where the hovered tower has exactly two free neighbours
C2_Witness ==
    /\ SwapPlanned
    /\ Len(out.queue) = 14
    /\ Cardinality(FreeNeighbours(fn.refs.grid, fn.intent.tile, fn.refs.towerSet)) = 2

\* C3: of a non-empty result, s1 and s2 are distinct free in-bounds 4-neighbours
\* of bOrigin; s1 is the nearest candidate to swapStart under the transport
\* adjacency, s2 the nearest of the others, ties going to the smallest "x:z" id
C3_StagingTiles ==
    (SwapPlanned /\ out.queue # <<>>) =>
        LET s1 == out.queue[1].tile
            s2 == out.queue[5].tile
            C  == FreeNeighbours(fn.refs.grid, fn.intent.tile, fn.refs.towerSet)
        IN  /\ s1 # s2
            /\ Selected(C, fn.refs.adjTransport, fn.refs.dollyTile, s1)
            /\ Selected(C \ {s1}, fn.refs.adjTransport, fn.refs.dollyTile, s2)

\* a tie for s2 went to the longer id, whose coordinate is the larger number
C3_Witness ==
    /\ SwapPlanned
    /\ out.queue # <<>>
    /\ LET s1 == out.queue[1].tile
           s2 == out.queue[5].tile
           C  == FreeNeighbours(fn.refs.grid, fn.intent.tile, fn.refs.towerSet)
       IN  \E c \in C \ {s1, s2} :
              /\ TrueDistance(fn.refs.adjTransport, fn.refs.dollyTile, c)
                    = TrueDistance(fn.refs.adjTransport, fn.refs.dollyTile, s2)
              /\ c.x = s2.x
              /\ c.z < s2.z

\* the free neighbours of the hovered tower at finite distance from the agent
ReachableCandidates ==
    {c \in FreeNeighbours(fn.refs.grid, fn.intent.tile, fn.refs.towerSet) :
        TrueDistance(fn.refs.adjTransport, fn.refs.dollyTile, c) # POSITIVE_INFINITY}

\* C4: expandSwap returns the empty sequence exactly when fewer than two free
\* in-bounds 4-neighbours of bOrigin are at finite distance from swapStart; the
\* intent then enqueues nothing and leaves towers, carrying, queue and agent tile
C4_InfeasibleSwap ==
    SwapPlanned =>
        /\ out.queue = <<>> <=> Cardinality(ReachableCandidates) < 2
        /\ out.queue = <<>> =>
              /\ out.towers = fn.refs.towers
              /\ out.towerSet = fn.refs.towerSet
              /\ out.carrying = fn.refs.carrying
              /\ out.dollyTile = fn.refs.dollyTile
              /\ out.kicks = fn.refs.kicks

\* nothing was planned although the hovered tower has two free neighbours
C4_Witness ==
    /\ SwapPlanned
    /\ out.queue = <<>>
    /\ out.towers = fn.refs.towers
    /\ Cardinality(FreeNeighbours(fn.refs.grid, fn.intent.tile, fn.refs.towerSet)) >= 2
    /\ Cardinality(ReachableCandidates) = 1

-----------------------------------------------------------------------------
(* Properties of a swap run by the command runner *)

\* the queue was last filled by a swap and the runner has run it to the end
SwapRan ==
    /\ swap.active
    /\ kicks = 0
    /\ queueRef = <<>>
    /\ Len(pathRef) < 2

\* C1: once the 14 commands of a swap have run to the end, nothing is carried,
\* tower A stands on bOrigin, tower B on aOrigin, every other tower where it stood
C1_SwapCompletes ==
    SwapRan =>
        /\ carryingRef = <<>>
        /\ carriedId = 0
        /\ Placed(towerIds, towersRef)
              = (swap.placed \ {<<swap.b, swap.bOrigin>>})
                    \cup {<<swap.a, swap.bOrigin>>, <<swap.b, swap.aOrigin>>}

\* a swap ran to the end and exchanged the two towers
C1_Swapped ==
    /\ SwapRan
    /\ carryingRef = <<>>
    /\ <<swap.a, swap.bOrigin>> \in Placed(towerIds, towersRef)
    /\ <<swap.b, swap.aOrigin>> \in Placed(towerIds, towersRef)

-----------------------------------------------------------------------------
(* pruneEdgesForTowerModeBlocking on the base edges of small grids and on   *)
(* hand-made edge lists; buildBaseEdges on grids of up to MaxEdgeSide.      *)

\* every edge a hand-made list may hold: any two node ids, either axis
NodeEdges == {Edge(a, b, axis) : a \in NodeIds, b \in NodeIds, axis \in {"X", "Z"}}

InitPruneGrid ==
    /\ RunnerIdle
    /\ out = <<>>
    /\ \E g \in PureGrids : \E ts \in TowerSets(g) : \E mode \in Modes :
          fn = [name |-> "pruneEdgesForTowerModeBlocking", done |-> FALSE,
                mode |-> mode, baseEdges |-> buildBaseEdges(g), towerSet |-> ts]

InitPruneHandMade ==
    /\ RunnerIdle
    /\ out = <<>>
    /\ \E edges \in SeqsUpTo(NodeEdges, MaxEdges) : \E ts \in SUBSET NodeIds :
       \E mode \in Modes :
          fn = [name |-> "pruneEdgesForTowerModeBlocking", done |-> FALSE,
                mode |-> mode, baseEdges |-> edges, towerSet |-> ts]

InitPrune == InitPruneGrid \/ InitPruneHandMade

CallPruneEdges ==
    /\ fn.name = "pruneEdgesForTowerModeBlocking"
    /\ ~fn.done
    /\ out' = pruneEdgesForTowerModeBlocking(fn.mode, fn.baseEdges, fn.towerSet)
    /\ fn' = [fn EXCEPT !.done = TRUE]
    /\ RunnerUnchanged

PruneSpec == InitPrune /\ [][CallPruneEdges]_vars

EdgeGrids == {[cols |-> c, rows |-> r] : c \in 1..MaxEdgeSide, r \in 1..MaxEdgeSide}

InitEdges ==
    /\ RunnerIdle
    /\ out = <<>>
    /\ \E g \in EdgeGrids : fn = [name |-> "buildBaseEdges", done |-> FALSE, grid |-> g]

CallBuildBaseEdges ==
    /\ fn.name = "buildBaseEdges"
    /\ ~fn.done
    /\ out' = buildBaseEdges(fn.grid)
    /\ fn' = [fn EXCEPT !.done = TRUE]
    /\ RunnerUnchanged

EdgesSpec == InitEdges /\ [][CallBuildBaseEdges]_vars

-----------------------------------------------------------------------------
(* Properties of the edge rules *)

\* the rule of the spec: TRANSPORT wants both endpoints free of towers, NORMAL
\* wants that of X edges only
LegalEdge(mode, e, towerSet) ==
    IF mode = "TRANSPORT" THEN e.a \notin towerSet /\ e.b \notin towerSet
    ELSE e.axis = "Z" \/ (e.a \notin towerSet /\ e.b \notin towerSet)

\* the legal edges of a list, in the order of the list
RECURSIVE LegalEdges(_, _, _)
LegalEdges(mode, edges, towerSet) ==
    IF edges = <<>> THEN <<>>
    ELSE (IF LegalEdge(mode, Head(edges), towerSet) THEN <<Head(edges)>> ELSE <<>>)
         \o LegalEdges(mode, Tail(edges), towerSet)

PruneDone == fn.name = "pruneEdgesForTowerModeBlocking" /\ fn.done

\* C11: pruneEdgesForTowerModeBlocking returns the legal edges of baseEdges and
\* no other, in the order of baseEdges
C11_PruneKeepsLegal ==
    PruneDone => out = LegalEdges(fn.mode, fn.baseEdges, fn.towerSet)

\* NORMAL kept a tower's Z edge and dropped an X edge whose second endpoint
\* alone is a tower
C11_Witness ==
    /\ PruneDone
    /\ fn.mode = "NORMAL"
    /\ \E i \in 1..Len(out) : out[i].axis = "Z" /\ out[i].a \in fn.towerSet
    /\ \E i \in 1..Len(fn.baseEdges) :
          LET e == fn.baseEdges[i]
          IN  /\ e.axis = "X"
              /\ e.a \notin fn.towerSet
              /\ e.b \in fn.towerSet
              /\ \A j \in 1..Len(out) : out[j] # e

\* the pairs of tiles of g joined along z of which one at least holds a tower
TowerZPairs(g, towerSet) ==
    {<<t, n>> \in GridTiles(g) \X GridTiles(g) :
        /\ n.x = t.x
        /\ n.z = t.z + 1
        /\ (toTileId(t) \in towerSet \/ toTileId(n) \in towerSet)}

\* C12: a Z edge touching a tower joins its tiles in the NORMAL adjacency and
\* does not join them in the TRANSPORT adjacency of the same tower set
C12_ModeAsymmetry ==
    AdjDone =>
        \A p \in TowerZPairs(fn.grid, fn.towerSet) :
            LET t == toTileId(p[1])
                n == toTileId(p[2])
            IN  IF fn.mode = "NORMAL"
                THEN n \in ListSet(out[t]) /\ t \in ListSet(out[n])
                ELSE n \notin ListSet(out[t]) /\ t \notin ListSet(out[n])

\* a NORMAL adjacency in which a tower keeps its Z neighbour and loses an X one
C12_Witness ==
    /\ AdjDone
    /\ fn.mode = "NORMAL"
    /\ \E p \in TowerZPairs(fn.grid, fn.towerSet) :
          /\ toTileId(p[1]) \in fn.towerSet
          /\ toTileId(p[2]) \in ListSet(out[toTileId(p[1])])
          /\ \E e \in GridTiles(fn.grid) :
                /\ e.x = p[1].x + 1
                /\ e.z = p[1].z
                /\ toTileId(e) \notin ListSet(out[toTileId(p[1])])

EdgesDone == fn.name = "buildBaseEdges" /\ fn.done

\* the unordered pairs of tiles of g one step apart along one axis
AdjacentPairs(g) ==
    {{p[1], p[2]} :
        p \in {q \in GridTiles(g) \X GridTiles(g) :
                  \/ (q[2].z = q[1].z /\ q[2].x = q[1].x + 1)
                  \/ (q[2].x = q[1].x /\ q[2].z = q[1].z + 1)}}

\* C13: buildBaseEdges emits one edge for each pair of adjacent tiles and no
\* other, rows*(cols-1) + cols*(rows-1) in all, tagged X when the endpoints
\* differ in x and Z when they differ in z
C13_BaseEdgesExact ==
    EdgesDone =>
        /\ Len(out) = fn.grid.rows * (fn.grid.cols - 1) + fn.grid.cols * (fn.grid.rows - 1)
        /\ \A i \in 1..Len(out) :
              LET a == parseTileId(out[i].a)
                  b == parseTileId(out[i].b)
              IN  /\ {a, b} \in AdjacentPairs(fn.grid)
                  /\ out[i].axis = (IF a.x # b.x THEN "X" ELSE "Z")
        /\ \A pair \in AdjacentPairs(fn.grid) :
              Cardinality({i \in 1..Len(out) :
                              {parseTileId(out[i].a), parseTileId(out[i].b)} = pair}) = 1

\* the edges of a grid with two-digit coordinates, of both axes
C13_Witness ==
    /\ EdgesDone
    /\ fn.grid.cols = MaxEdgeSide
    /\ fn.grid.rows >= 2
    /\ \E i, j \in 1..Len(out) : out[i].axis = "X" /\ out[j].axis = "Z"

-----------------------------------------------------------------------------
(* The runner, command by command.  What a run of runNext found is in ran,  *)
(* what it left is in the refs.  Which tiles the agent can reach is         *)
(* computed from the movement rule, without the adjacency map or bfsPath.   *)

\* a and b are side by side and the edge between them is legal in mode
LegalStep(mode, a, b, towerSet) ==
    LET free == toTileId(a) \notin towerSet /\ toTileId(b) \notin towerSet
    IN  \/ a.z = b.z /\ (a.x - b.x) \in {-1, 1} /\ free
        \/ a.x = b.x /\ (a.z - b.z) \in {-1, 1} /\ (mode = "NORMAL" \/ free)

\* the tiles reached from the frontier by legal steps, with those seen before
RECURSIVE Flood(_, _, _, _, _)
Flood(tiles, mode, towerSet, frontier, seen) ==
    IF frontier = {} THEN seen
    ELSE LET nxt == {b \in tiles \ seen :
                        \E a \in frontier : LegalStep(mode, a, b, towerSet)}
         IN  Flood(tiles, mode, towerSet, nxt, seen \cup nxt)

CanReach(tiles, mode, towers, from, to) ==
    to \in Flood(tiles, mode, buildTowerSet(towers), {from}, {from})

\* the command the last run of runNext found at the head of the queue
RanHead == ran.queue[1]

\* the last run found the agent on the tile of the head command
RanAtTarget == tileEquals(ran.dollyTile, RanHead.tile)

\* the last run found the tile of the head command within reach
RanCanReach ==
    CanReach(RunTiles, modeOf(ran.carrying), ran.towers, ran.dollyTile, RanHead.tile)

\* the last run found a LIFT to rewrite
LiftToRewrite ==
    /\ ran.active
    /\ RanHead.type = "LIFT"
    /\ ~RanAtTarget
    /\ RanCanReach

RewrittenLift == rewrite.phase = "rewritten" /\ rewrite.cmd.type = "LIFT"

ResolvedLift ==
    /\ rewrite.phase = "resolved"
    /\ rewrite.cmd.type = "LIFT"
    /\ tileEquals(dollyTileRef, rewrite.cmd.tile)
    /\ queueRef = rewrite.rest

\* C14: a LIFT(target) found at the head with the agent elsewhere and target
\* within reach leaves the queue as MOVE_TO(target), LIFT(target) and the rest
\* as it was; the rewritten LIFT is never rewritten again nor removed with the
\* agent elsewhere, and it is in the end resolved with the agent on target
C14_LiftAfterRewrite ==
    /\ [](LiftToRewrite =>
             queueRef = <<moveTo(RanHead.tile), RanHead>> \o Tail(ran.queue))
    /\ [](rewrite.phase \in {"again", "lost"} => rewrite.cmd.type # "LIFT")
    /\ (RewrittenLift ~> ResolvedLift)

\* a rewritten LIFT was resolved on its tile, and the tower there is carried
C14_Witness == ResolvedLift /\ carryingRef = <<rewrite.cmd.tile>>

\* the ids of the tiles of a tower list
TowerIdsOf(list) == {toTileId(list[i]) : i \in 1..Len(list)}

\* adj lists for every tile exactly the tiles a legal step away
IsAdjacencyOf(adj, mode, towerSet) ==
    \A a \in RunTiles :
        ListSet(neighborsOf(adj, toTileId(a)))
            = {toTileId(b) : b \in {t \in RunTiles : LegalStep(mode, a, t, towerSet)}}

\* the last run found a LIFT it can carry out
LiftToRun ==
    /\ ran.active
    /\ RanHead.type = "LIFT"
    /\ RanAtTarget
    /\ ran.carrying = <<>>
    /\ toTileId(RanHead.tile) \in TowerIdsOf(ran.towers)

\* C15: a LIFT(target) found with the agent on target, nothing carried and a
\* tower on target takes exactly target out of the tower set, makes target the
\* carried tile, pops the command, and leaves as adjacency the TRANSPORT
\* adjacency of the new tower set
C15_LiftSucceeds ==
    LiftToRun =>
        /\ TowerIdsOf(towersRef) = TowerIdsOf(ran.towers) \ {toTileId(RanHead.tile)}
        /\ towerSetRef = TowerIdsOf(towersRef)
        /\ carryingRef = <<RanHead.tile>>
        /\ queueRef = Tail(ran.queue)
        /\ IsAdjacencyOf(adjRef, "TRANSPORT", TowerIdsOf(towersRef))

\* a tower was lifted while other towers stand
C15_Witness ==
    /\ LiftToRun
    /\ carryingRef = <<RanHead.tile>>
    /\ towersRef # <<>>
    /\ Len(towersRef) < Len(ran.towers)

\* the last run found a DROP it can carry out
DropToRun ==
    /\ ran.active
    /\ RanHead.type = "DROP"
    /\ RanAtTarget
    /\ ran.carrying # <<>>
    /\ toTileId(RanHead.tile) \notin TowerIdsOf(ran.towers)

\* C16: a DROP(target) found with the agent on target, a tower carried and no
\* tower on target puts exactly target into the tower set, empties the
\* carrying-state, pops the command, and leaves as adjacency the NORMAL
\* adjacency of the new tower set
C16_DropSucceeds ==
    DropToRun =>
        /\ TowerIdsOf(towersRef) = TowerIdsOf(ran.towers) \cup {toTileId(RanHead.tile)}
        /\ towerSetRef = TowerIdsOf(towersRef)
        /\ carryingRef = <<>>
        /\ queueRef = Tail(ran.queue)
        /\ IsAdjacencyOf(adjRef, "NORMAL", TowerIdsOf(towersRef))

\* a carried tower was put down on a tile other than the one it came from
C16_Witness ==
    /\ DropToRun
    /\ carryingRef = <<>>
    /\ Len(towersRef) > Len(ran.towers)
    /\ ~tileEquals(ran.carrying[1], RanHead.tile)

\* the last run found a LIFT or a DROP whose precondition fails
RefusedLift ==
    /\ RanHead.type = "LIFT"
    /\ (ran.carrying # <<>> \/ toTileId(RanHead.tile) \notin TowerIdsOf(ran.towers))

RefusedDrop ==
    /\ RanHead.type = "DROP"
    /\ (ran.carrying = <<>> \/ toTileId(RanHead.tile) \in TowerIdsOf(ran.towers))

\* C17: a LIFT of no tower, a LIFT while carrying, a DROP onto a tower and a
\* DROP of nothing change neither the towers nor the carrying-state; the
\* command leaves the queue when the agent is on its tile or cannot reach it,
\* and is sent there first otherwise, to leave the queue on arrival; in each
\* case a next run of the runner is queued
C17_RefusedCommand ==
    /\ (ran.active /\ (RefusedLift \/ RefusedDrop)) =>
          /\ towersRef = ran.towers
          /\ carryingRef = ran.carrying
          /\ kicks > 0
          /\ queueRef = IF RanAtTarget \/ ~RanCanReach
                        THEN Tail(ran.queue)
                        ELSE <<moveTo(RanHead.tile), RanHead>> \o Tail(ran.queue)
    /\ rewrite.phase \notin {"again", "lost"}

\* a DROP onto a standing tower was taken off the queue
C17_Witness ==
    /\ ran.active
    /\ RefusedDrop
    /\ ran.carrying # <<>>
    /\ queueRef = Tail(ran.queue)
    /\ kicks > 0

\* the last run found a MOVE_TO at the head
MoveToRun == ran.active /\ RanHead.type = "MOVE_TO"

\* C18: a MOVE_TO(target) found with the agent on target, or with target out
\* of reach in the mode's adjacency, is popped and no path is committed; the
\* agent's tile, the towers and the carrying-state stay, and a next run of
\* the runner is queued
C18_MoveSkipped ==
    (MoveToRun /\ (RanAtTarget \/ ~RanCanReach)) =>
        /\ queueRef = Tail(ran.queue)
        /\ pathRef = <<>>
        /\ dollyTileRef = ran.dollyTile
        /\ towersRef = ran.towers
        /\ carryingRef = ran.carrying
        /\ kicks > 0

\* a MOVE_TO to a tile out of reach was popped
C18_Witness ==
    /\ MoveToRun
    /\ ~RanAtTarget
    /\ ~RanCanReach
    /\ queueRef = Tail(ran.queue)
    /\ pathRef = <<>>

\* C19: a path committed for MOVE_TO(target) has two tiles or more, starts on
\* the agent's tile, ends on target, and each of its steps is a legal step of
\* the mode (TRANSPORT iff a tower is carried) among the placed towers
C19_CommittedPath ==
    (MoveToRun /\ pathRef # <<>>) =>
        /\ Len(pathRef) >= 2
        /\ pathRef[1] = ran.dollyTile
        /\ pathRef[Len(pathRef)] = RanHead.tile
        /\ carryingRef = ran.carrying /\ towersRef = ran.towers
        /\ \A i \in 1..(Len(pathRef) - 1) :
              /\ pathRef[i] \in RunTiles /\ pathRef[i + 1] \in RunTiles
              /\ LegalStep(modeOf(carryingRef), pathRef[i], pathRef[i + 1],
                           TowerIdsOf(towersRef))

\* a path of several steps was committed while a tower is carried
C19_Witness ==
    /\ MoveToRun
    /\ Len(pathRef) >= 4
    /\ carryingRef # <<>>
    /\ towersRef # <<>>

-----------------------------------------------------------------------------
(* The App as it starts, on DEFAULT_GRID: one click on a tile, then the run *)
(* of runNext that the click queued.                                        *)

DefaultCols == 14
DefaultRows == 11
DEFAULT_GRID == [cols |-> DefaultCols, rows |-> DefaultRows]

\* the refs after the first render: towers from generateTowerTiles(grid), the
\* agent on { x: 7, z: 5 }, nothing carried, no command, no path
InitialRefs ==
    IdleRefs(DEFAULT_GRID, generateTowerTiles(DEFAULT_GRID, DefaultMaxTowers), <<>>,
             Tile(InitialDollyX, InitialDollyZ))

InitApp ==
    /\ RunnerIdle
    /\ \E tile \in GridTiles(DEFAULT_GRID) :
          fn = [name |-> "handleTileClick", stage |-> "idle", tile |-> tile]
    /\ out = InitialRefs

CallHandleTileClick ==
    /\ fn.name = "handleTileClick"
    /\ fn.stage = "idle"
    /\ out' = handleTileClick(out, fn.tile)
    /\ fn' = [fn EXCEPT !.stage = "clicked"]
    /\ RunnerUnchanged

CallRunNext ==
    /\ fn.name = "handleTileClick"
    /\ fn.stage = "clicked"
    /\ out.kicks > 0
    /\ out' = runNext([out EXCEPT !.kicks = @ - 1])
    /\ fn' = [fn EXCEPT !.stage = "ran"]
    /\ RunnerUnchanged

AppSpec == InitApp /\ [][CallHandleTileClick \/ CallRunNext]_vars

\* the click on (0,0) was made and the run it queued is over
MoveToOriginRan ==
    /\ fn.name = "handleTileClick"
    /\ fn.stage = "ran"
    /\ fn.tile = Tile(0, 0)

\* C20: on the default grid with the generated towers, the agent on (7,5) and
\* nothing carried, MOVE_TO((0,0)) has the runner commit a path that is not
\* empty, starts with (7,5), ends with (0,0), and whose steps are all legal
\* NORMAL-mode steps between tiles of the grid
C20_DefaultMove ==
    MoveToOriginRan =>
        /\ out.path # <<>>
        /\ out.path[1] = Tile(7, 5)
        /\ out.path[Len(out.path)] = Tile(0, 0)
        /\ \A i \in 1..(Len(out.path) - 1) :
              /\ out.path[i] \in GridTiles(DEFAULT_GRID)
              /\ out.path[i + 1] \in GridTiles(DEFAULT_GRID)
              /\ LegalStep("NORMAL", out.path[i], out.path[i + 1],
                           TowerIdsOf(generateTowerTiles(DEFAULT_GRID, DefaultMaxTowers)))

\* the path to (0,0) was committed: twelve steps or more, 24 towers standing
C20_Witness ==
    /\ MoveToOriginRan
    /\ Len(out.path) >= 13
    /\ Len(out.towers) = DefaultMaxTowers
    /\ out.queue = <<>>

-----------------------------------------------------------------------------
(* The runner and the arrival events *)

PathPending == Len(pathRef) >= 2

\* C21: while a committed path waits for its arrival event no step commits
\* another path, and none pops, rewrites, lifts or drops: the queue, the
\* towers and the carrying-state stay, and the path stays or is cleared
C21_OnePathPending ==
    [][PathPending =>
          /\ queueRef' = queueRef
          /\ towersRef' = towersRef
          /\ carryingRef' = carryingRef
          /\ pathRef' \in {pathRef, <<>>}]_vars

\* runNext ran while a path was pending, with commands waiting in the queue
C21_Witness ==
    /\ ran.blocked
    /\ PathPending
    /\ queueRef # <<>>

\* C22: a committed path is answered by one handled arrival event: no frame
\* makes a second call of handleArrive, no call finds the path already
\* cleared, and the tile reported is the last tile of the pending path
C22_OneArrival ==
    /\ arrivals.calls <= 1
    /\ arrivals.idle = 0
    /\ arrivals.calls > 0 => arrivals.tile = arrivals.path[Len(arrivals.path)]

\* one Dolly alone reached the end of the path, and its arrival was handled
C22_Witness ==
    /\ arrivals.calls = 1
    /\ arrivals.idle = 0
    /\ tileEquals(dollyTileRef, arrivals.path[Len(arrivals.path)])
    /\ pathRef = <<>>

\* the queue q2 is q with commands appended
Appended(q, q2) == Len(q2) > Len(q) /\ SubSeq(q2, 1, Len(q)) = q

\* the queue q2 is q with one MOVE_TO to the head's tile put before the head
Prepended(q, q2) ==
    /\ q # <<>>
    /\ Head(q).type # "MOVE_TO"
    /\ q2 = <<moveTo(Head(q).tile)>> \o q

\* C23: the queue changes only by an append, by a pop of the head, or by one
\* MOVE_TO put before the head; and a step that commits a path, takes a tower
\* or puts one down pops the head, which is the command of that effect
C23_QueueOrder ==
    [][/\ \/ queueRef' = queueRef
          \/ Appended(queueRef, queueRef')
          \/ queueRef # <<>> /\ queueRef' = Tail(queueRef)
          \/ Prepended(queueRef, queueRef')
       /\ (pathRef' # pathRef /\ pathRef' # <<>>) =>
             /\ queueRef # <<>> /\ queueRef' = Tail(queueRef)
             /\ Head(queueRef) = moveTo(pathRef'[Len(pathRef')])
       /\ (carryingRef' # carryingRef /\ carryingRef' # <<>>) =>
             /\ queueRef # <<>> /\ queueRef' = Tail(queueRef)
             /\ Head(queueRef) = lift(carryingRef'[1])
       /\ (carryingRef' # carryingRef /\ carryingRef' = <<>>) =>
             /\ queueRef # <<>> /\ queueRef' = Tail(queueRef)
             /\ Head(queueRef).type = "DROP"
             /\ towersRef' = Append(towersRef, Head(queueRef).tile)]_vars

\* the head of a queue of three commands or more took a tower or put one
\* down, and the commands behind it are the queue now
C23_Witness ==
    /\ ran.active
    /\ Len(ran.queue) >= 3
    /\ queueRef = Tail(ran.queue)
    /\ carryingRef # ran.carrying

\* the last run found a LIFT or a DROP whose tile the agent cannot reach
OutOfReach ==
    /\ ran.active
    /\ RanHead.type \in {"LIFT", "DROP"}
    /\ ~RanAtTarget
    /\ ~RanCanReach

Resolved ==
    /\ rewrite.phase = "resolved"
    /\ tileEquals(dollyTileRef, rewrite.cmd.tile)
    /\ queueRef = rewrite.rest

\* C24: a LIFT or DROP whose tile is out of reach is popped with no MOVE_TO
\* put before it; a LIFT or DROP rewritten with a move is never rewritten a
\* second time nor removed with the agent elsewhere, and it is in the end
\* resolved, carried out or dropped, with the agent on its tile
C24_RewrittenOnce ==
    /\ [](OutOfReach => queueRef = Tail(ran.queue))
    /\ [](rewrite.phase \notin {"again", "lost"})
    /\ (rewrite.phase = "rewritten" ~> Resolved)

\* a DROP rewritten with a move was carried out on its tile
C24_Witness ==
    /\ Resolved
    /\ rewrite.cmd.type = "DROP"
    /\ carryingRef = <<>>
    /\ tileHasTower(rewrite.cmd.tile, towersRef)

-----------------------------------------------------------------------------
(* The placed towers and the carried tower *)

NoTileTwice(list) ==
    \A i, j \in 1..Len(list) : list[i] = list[j] => i = j

\* list without the tile at position k
WithoutAt(list, k) == SubSeq(list, 1, k - 1) \o SubSeq(list, k + 1, Len(list))

\* this step carries out the LIFT at the head: the agent on its tile, nothing
\* carried, a tower there; exactly that tile leaves the list
LiftStep ==
    /\ queueRef # <<>>
    /\ ~PathPending
    /\ Head(queueRef).type = "LIFT"
    /\ tileEquals(dollyTileRef, Head(queueRef).tile)
    /\ carryingRef = <<>>
    /\ \E k \in 1..Len(towersRef) :
          /\ towersRef[k] = Head(queueRef).tile
          /\ towersRef' = WithoutAt(towersRef, k)

\* this step carries out the DROP at the head: the agent on its tile, a tower
\* carried, no tower there; exactly that tile joins the list
DropStep ==
    /\ queueRef # <<>>
    /\ ~PathPending
    /\ Head(queueRef).type = "DROP"
    /\ tileEquals(dollyTileRef, Head(queueRef).tile)
    /\ carryingRef # <<>>
    /\ \A k \in 1..Len(towersRef) : towersRef[k] # Head(queueRef).tile
    /\ towersRef' = Append(towersRef, Head(queueRef).tile)

\* C25: the list of placed towers never holds a tile twice, and a step
\* changes it only by carrying out a LIFT, which takes exactly the target out,
\* or a DROP, which puts exactly the target in
C25_TowersFrame ==
    /\ []NoTileTwice(towersRef)
    /\ [][towersRef' # towersRef => (LiftStep \/ DropStep)]_vars

\* a tower was put down on a tile it did not come from, beside other towers
C25_Witness ==
    /\ ran.active
    /\ RanHead.type = "DROP"
    /\ towersRef = Append(ran.towers, RanHead.tile)
    /\ ran.carrying # <<RanHead.tile>>
    /\ Len(towersRef) >= 2

\* C26: a carried tower's tile is never in the tower set; the step that sets
\* the carrying-state takes that tile out of the placed towers, and the step
\* that clears it puts a tile in
C26_CarriedNotPlaced ==
    /\ [](carryingRef # <<>> =>
             /\ toTileId(carryingRef[1]) \notin TowerIdsOf(towersRef)
             /\ toTileId(carryingRef[1]) \notin towerSetRef)
    /\ [][carryingRef' # carryingRef =>
             IF carryingRef' # <<>>
             THEN /\ carryingRef = <<>>
                  /\ toTileId(carryingRef'[1]) \in TowerIdsOf(towersRef)
                  /\ TowerIdsOf(towersRef')
                        = TowerIdsOf(towersRef) \ {toTileId(carryingRef'[1])}
             ELSE \E tile \in RunTiles :
                     /\ toTileId(tile) \notin TowerIdsOf(towersRef)
                     /\ TowerIdsOf(towersRef')
                           = TowerIdsOf(towersRef) \cup {toTileId(tile)}]_vars

\* a tower is carried away from its tile while other towers stand
C26_Witness ==
    /\ carryingRef # <<>>
    /\ ~tileEquals(dollyTileRef, carryingRef[1])
    /\ towersRef # <<>>

\* the last run, with the agent off the head's tile, found a way to the tile:
\* it committed a path for a MOVE_TO, it put a move before a LIFT or DROP
FoundWay ==
    IF RanHead.type = "MOVE_TO" THEN pathRef # <<>>
    ELSE queueRef = <<moveTo(RanHead.tile), RanHead>> \o Tail(ran.queue)

\* C27: in every state the graphs are those of the placed towers and of the
\* mode (TRANSPORT iff a tower is carried), so none is older than the latest
\* LIFT or DROP; and every planning decision, of a MOVE_TO or of a rewrite,
\* finds a way exactly when the movement rule of that moment gives one
C27_FreshAdjacency ==
    /\ towerSetRef = TowerIdsOf(towersRef)
    /\ adjRef = buildPrunedAdjacency(modeOf(carryingRef), RunGrid, baseEdgesRef,
                                     TowerIdsOf(towersRef))
    /\ IsAdjacencyOf(adjRef, modeOf(carryingRef), TowerIdsOf(towersRef))
    /\ IsAdjacencyOf(adjTransportRef, "TRANSPORT", TowerIdsOf(towersRef))
    /\ (ran.active /\ ~RanAtTarget) => (FoundWay <=> RanCanReach)

\* a run while carrying found no way to a tile that the NORMAL adjacency,
\* the one from before the LIFT, would have reached
C27_Witness ==
    /\ ran.active
    /\ ran.carrying # <<>>
    /\ ~RanAtTarget
    /\ ~RanCanReach
    /\ ~FoundWay
    /\ CanReach(RunTiles, "NORMAL", ran.towers, ran.dollyTile, RanHead.tile)

-----------------------------------------------------------------------------
(* Termination of the runner *)

\* the runner has work: commands queued or a path pending
Busy == queueRef # <<>> \/ PathPending

\* the runner is at rest: nothing queued, no path pending, no run queued
AtRest == queueRef = <<>> /\ ~PathPending /\ kicks = 0

\* C28: when queued runs are run and pending paths get their arrival, a runner
\* with commands queued or a path pending comes to rest with the queue empty
\* and no path pending (no command is enqueued while it has work)
C28_RunnerTerminates == Busy ~> AtRest

\* the runner came to rest after its last intent, away from where it started
\* and carrying a tower
C28_Witness ==
    /\ AtRest
    /\ intents = MaxFairIntents
    /\ ~tileEquals(dollyTileRef, InitialDollyTile)
    /\ carryingRef # <<>>

-----------------------------------------------------------------------------
(* generateTowerTiles alone, on every grid up to MaxTowerSide and every     *)
(* maxTowers from 0 up to MaxTowerCap                                       *)

TowerGrids == {[cols |-> c, rows |-> r] : c \in 1..MaxTowerSide, r \in 1..MaxTowerSide}

InitTowers ==
    /\ RunnerIdle
    /\ out = <<>>
    /\ \E g \in TowerGrids, maxTowers \in 0..MaxTowerCap :
          fn = [name |-> "generateTowerTiles", done |-> FALSE, grid |-> g,
                maxTowers |-> maxTowers]

CallGenerateTowerTiles ==
    /\ fn.name = "generateTowerTiles"
    /\ ~fn.done
    /\ out' = generateTowerTiles(fn.grid, fn.maxTowers)
    /\ fn' = [fn EXCEPT !.done = TRUE]
    /\ RunnerUnchanged

TowersSpec == InitTowers /\ [][CallGenerateTowerTiles]_vars

TowersDone == fn.name = "generateTowerTiles" /\ fn.done

\* the tiles with even x, 2 <= x < cols - 1, and even z, 2 <= z < rows
EvenLattice(g) ==
    {t \in GridTiles(g) : /\ t.x % 2 = 0 /\ 2 <= t.x /\ t.x < g.cols - 1
                          /\ t.z % 2 = 0 /\ 2 <= t.z}

\* a comes before b row by row: z ascending, then x ascending
RowByRow(a, b) == a.z < b.z \/ (a.z = b.z /\ a.x < b.x)

\* tiles one step apart along one axis
FourAdjacent(a, b) ==
    \/ a.z = b.z /\ (a.x = b.x + 1 \/ b.x = a.x + 1)
    \/ a.x = b.x /\ (a.z = b.z + 1 \/ b.z = a.z + 1)

\* list is the first n tiles of the even lattice of g, row by row
LatticePrefix(list, g, n) ==
    /\ Len(list) = n
    /\ \A i \in 1..Len(list) : list[i] \in EvenLattice(g)
    /\ \A i, j \in 1..Len(list) : i < j => RowByRow(list[i], list[j])
    /\ \A i \in 1..Len(list) :
          \A t \in EvenLattice(g) :
              RowByRow(t, list[i]) => \E j \in 1..Len(list) : list[j] = t

\* what the lattice sentence asks of a returned list
TowerTilesAsStated(list, g, maxTowers) ==
    /\ LatticePrefix(list, g, Min(maxTowers, Cardinality(EvenLattice(g))))
    /\ Len(list) <= maxTowers
    /\ \A i, j \in 1..Len(list) : ~FourAdjacent(list[i], list[j])
    /\ \A i \in 1..Len(list) : list[i].x >= 2 /\ list[i].z >= 2

\* C29: generateTowerTiles(grid, maxTowers) returns, row by row, the first
\* min(maxTowers, N) tiles of the lattice of even x in 2..cols-2 and even z in
\* 2..rows-1; never more than maxTowers tiles, no two of them 4-adjacent, none
\* in rows 0-1 or columns 0-1
C29_TowerLattice ==
    TowersDone => TowerTilesAsStated(out, fn.grid, fn.maxTowers)

\* a call that stopped in the middle of a row of the lattice
C29_Witness ==
    /\ TowersDone
    /\ fn.maxTowers >= 1
    /\ Len(out) = fn.maxTowers
    /\ Cardinality(EvenLattice(fn.grid)) > fn.maxTowers
    /\ \E t \in EvenLattice(fn.grid) : t.z = out[Len(out)].z /\ t.x > out[Len(out)].x

\* C30: generateTowerTiles places towers at odd x and odd z, starting at
\* (1,1), until maxTowers is reached
C30_OddLattice ==
    TowersDone =>
        /\ \A i \in 1..Len(out) : out[i].x % 2 = 1 /\ out[i].z % 2 = 1
        /\ (out # <<>> => out[1] = Tile(1, 1))

\* a call that placed towers
C30_Witness == TowersDone /\ Len(out) >= 2

-----------------------------------------------------------------------------
(* toTileId and parseTileId alone, on every pair of tiles with coordinates  *)
(* up to MaxCoord                                                           *)

CoordTiles == {Tile(x, z) : x \in 0..MaxCoord, z \in 0..MaxCoord}

InitTileId ==
    /\ RunnerIdle
    /\ out = <<>>
    /\ \E a \in CoordTiles, b \in CoordTiles :
          fn = [name |-> "toTileId", done |-> FALSE, a |-> a, b |-> b]

CallToTileId ==
    /\ fn.name = "toTileId"
    /\ ~fn.done
    /\ out' = [a |-> toTileId(fn.a), b |-> toTileId(fn.b),
               parsed |-> parseTileId(toTileId(fn.a))]
    /\ fn' = [fn EXCEPT !.done = TRUE]
    /\ RunnerUnchanged

TileIdSpec == InitTileId /\ [][CallToTileId]_vars

TileIdDone == fn.name = "toTileId" /\ fn.done

\* C31: parseTileId(toTileId(t)) is t for every tile t of non-negative
\* integer coordinates, and two tiles with the same TileId are equal
C31_TileIdRoundTrip ==
    TileIdDone =>
        /\ out.parsed = fn.a
        /\ (out.a = out.b => tileEquals(fn.a, fn.b))

\* two different tiles whose ids have the same digits in the same order, one
\* of them with a coordinate of two digits
C31_Witness ==
    /\ TileIdDone
    /\ ~tileEquals(fn.a, fn.b)
    /\ fn.a.x >= 10
    /\ SelectSeq(out.a, LAMBDA c : c # ":") = SelectSeq(out.b, LAMBDA c : c # ":")
    /\ out.parsed = fn.a

-----------------------------------------------------------------------------
(* allTiles alone, on every grid up to MaxTilesSide columns and rows *)

TilesGrids == {[cols |-> c, rows |-> r] : c \in 0..MaxTilesSide, r \in 0..MaxTilesSide}

InitAllTiles ==
    /\ RunnerIdle
    /\ out = <<>>
    /\ \E g \in TilesGrids : fn = [name |-> "allTiles", done |-> FALSE, grid |-> g]

CallAllTiles ==
    /\ fn.name = "allTiles"
    /\ ~fn.done
    /\ out' = allTiles(fn.grid)
    /\ fn' = [fn EXCEPT !.done = TRUE]
    /\ RunnerUnchanged

AllTilesSpec == InitAllTiles /\ [][CallAllTiles]_vars

AllTilesDone == fn.name = "allTiles" /\ fn.done

\* C32: allTiles(grid) has rows*cols tiles, and the tile (x, z) of the grid
\* is at index z*cols + x (counted from 0); so every in-bounds tile is there
\* once and no other tile is
C32_AllTilesRowMajor ==
    AllTilesDone =>
        /\ Len(out) = fn.grid.rows * fn.grid.cols
        /\ \A t \in GridTiles(fn.grid) : out[t.z * fn.grid.cols + t.x + 1] = t
        /\ \A i \in 1..Len(out) : isInBounds(out[i], fn.grid)

\* a grid with more columns than rows, several of each
C32_Witness ==
    /\ AllTilesDone
    /\ fn.grid.rows >= 3
    /\ fn.grid.cols > fn.grid.rows
    /\ out[fn.grid.cols + 1] = Tile(0, 1)

-----------------------------------------------------------------------------
(* Commands that cannot be carried out, sent to their tile first *)

\* cmd cannot be carried out whatever the agent's tile: a LIFT while carrying
\* or of no tower, a DROP of nothing or onto a tower
Refused(cmd, towers, carrying) ==
    \/ cmd.type = "LIFT" /\ (carrying # <<>> \/ ~tileHasTower(cmd.tile, towers))
    \/ cmd.type = "DROP" /\ (carrying = <<>> \/ tileHasTower(cmd.tile, towers))

\* such a command is in the queue behind the move it was rewritten with
RewrittenRefused ==
    /\ rewrite.phase = "rewritten"
    /\ Refused(rewrite.cmd, towersRef, carryingRef)

\* C33: a LIFT or DROP that cannot be carried out, found with the agent
\* elsewhere and its tile within reach, is rewritten with a move; from then on
\* no step changes the towers or the carrying-state, and in the end the
\* command is off the queue with the agent on its tile: the agent's tile is
\* all that changed
C33_RefusedAfterMove ==
    /\ []((ran.active /\ (RefusedLift \/ RefusedDrop) /\ ~RanAtTarget /\ RanCanReach) =>
             /\ rewrite.phase = "rewritten"
             /\ rewrite.cmd = RanHead
             /\ queueRef = <<moveTo(RanHead.tile), RanHead>> \o Tail(ran.queue))
    /\ [][RewrittenRefused =>
             /\ towersRef' = towersRef
             /\ carryingRef' = carryingRef
             /\ rewrite'.phase \in {"rewritten", "resolved"}]_vars
    /\ (RewrittenRefused ~>
            (Resolved /\ Refused(rewrite.cmd, towersRef, carryingRef)))

\* a LIFT of no tower was sent to its tile and taken off the queue there,
\* nothing being carried before or after
C33_Witness ==
    /\ Resolved
    /\ rewrite.cmd.type = "LIFT"
    /\ ~tileHasTower(rewrite.cmd.tile, towersRef)
    /\ carryingRef = <<>>
    /\ ~tileEquals(dollyTileRef, InitialDollyTile)

-----------------------------------------------------------------------------
(* Towers are neither made nor lost *)

\* the towers there are: those placed, and the one carried if any
TowerCount(towers, carrying) == Len(towers) + (IF carrying # <<>> THEN 1 ELSE 0)

\* C34: the number of placed towers, plus one if a tower is carried, is in
\* every state the number of towers generated at the start
C34_TowersConserved ==
    TowerCount(towersRef, carryingRef)
        = Len(generateTowerTiles(RunGrid, DefaultMaxTowers))

\* a tower stands where none was generated, nothing is carried, and a swap
\* was expanded on the way
C34_Witness ==
    /\ carryingRef = <<>>
    /\ TowerIdsOf(towersRef) # TowerIdsOf(generateTowerTiles(RunGrid, DefaultMaxTowers))
    /\ swap # NoSwap

-----------------------------------------------------------------------------
(* A laden agent keeps off the towers *)

\* C35: while a tower is carried, no tile of the committed path and not the
\* agent's own tile is in the tower set
C35_LadenAvoidsTowers ==
    carryingRef # <<>> =>
        /\ \A i \in 1..Len(pathRef) : toTileId(pathRef[i]) \notin towerSetRef
        /\ \A i \in 1..Len(pathRef) : ~tileHasTower(pathRef[i], towersRef)
        /\ toTileId(dollyTileRef) \notin towerSetRef
        /\ ~tileHasTower(dollyTileRef, towersRef)

\* a laden agent has a path of three tiles or more that passes next to a
\* tower, in the tower's column
C35_Witness ==
    /\ carryingRef # <<>>
    /\ Len(pathRef) >= 3
    /\ \E i \in 1..Len(pathRef) :
          \E k \in 1..Len(towersRef) :
              /\ towersRef[k].x = pathRef[i].x
              /\ towersRef[k].z \in {pathRef[i].z - 1, pathRef[i].z + 1}

-----------------------------------------------------------------------------
(* Intents submitted to a busy runner *)

\* the intents of the hover menus, on every tile
AllIntents == {[type |-> type, tile |-> tile] : type \in IntentTypes, tile \in RunTiles}

-----------------------------------------------------------------------------
(* The runner sent off the grid: intents name the tiles of the grid and the *)
(* tiles of the ring around it                                              *)

RingTiles == {Tile(x, z) : x \in (0 - 1)..RunCols, z \in (0 - 1)..RunRows} \ RunTiles

OnOutsideIntent ==
    HoverIntent({[type |-> type, tile |-> tile] :
                    type \in IntentTypes, tile \in RunTiles \cup RingTiles},
                MaxOutsideIntents)

OutsideNext == RunNext \/ HandleArrive \/ OnOutsideIntent

OutsideSpec == Init /\ [][OutsideNext]_vars

\* the last run found at the head a command for a tile outside the grid
RanOutside == ran.active /\ ~isInBounds(RanHead.tile, RunGrid)

\* C37: the agent's tile and every tile of a committed path are on the grid;
\* a MOVE_TO, LIFT or DROP for a tile outside the grid is popped, with no
\* path committed and the agent's tile, the towers, the tower set and the
\* carrying-state as they were
C37_StaysOnGrid ==
    /\ isInBounds(dollyTileRef, RunGrid)
    /\ \A i \in 1..Len(pathRef) : isInBounds(pathRef[i], RunGrid)
    /\ RanOutside =>
          /\ queueRef = Tail(ran.queue)
          /\ pathRef = <<>>
          /\ dollyTileRef = ran.dollyTile
          /\ towersRef = ran.towers
          /\ towerSetRef = TowerIdsOf(ran.towers)
          /\ carryingRef = ran.carrying

\* a DROP for a tile outside the grid was popped while a tower is carried
C37_Witness ==
    /\ RanOutside
    /\ RanHead.type = "DROP"
    /\ carryingRef # <<>>
    /\ queueRef = Tail(ran.queue)

-----------------------------------------------------------------------------
(* The two adjacencies of one grid and tower set *)

\* the adjacency of the call's grid and tower set in the given mode: the
\* call's result for the call's mode, and for the other mode what
\* buildPrunedAdjacency builds from the same arguments
AdjacencyIn(mode) ==
    IF fn.mode = mode THEN out
    ELSE buildPrunedAdjacency(mode, fn.grid, buildBaseEdges(fn.grid), fn.towerSet)

\* C38: every neighbour relation of the TRANSPORT adjacency is in the NORMAL
\* adjacency of the same grid and tower set, and in the TRANSPORT adjacency a
\* tile of the tower set has no neighbours and is no tile's neighbour
C38_TransportWithinNormal ==
    AdjDone =>
        LET normal    == AdjacencyIn("NORMAL")
            transport == AdjacencyIn("TRANSPORT")
        IN  /\ DOMAIN transport = DOMAIN normal
            /\ \A a \in DOMAIN transport :
                  ListSet(transport[a]) \subseteq ListSet(normal[a])
            /\ \A a \in DOMAIN transport :
                  a \in fn.towerSet =>
                      /\ transport[a] = <<>>
                      /\ \A b \in DOMAIN transport : a \notin ListSet(transport[b])

\* a TRANSPORT adjacency with a relation kept, and a tower that has a
\* neighbour in the NORMAL adjacency and none in the TRANSPORT one
C38_Witness ==
    /\ AdjDone
    /\ fn.mode = "TRANSPORT"
    /\ \E a \in DOMAIN out : out[a] # <<>>
    /\ \E a \in fn.towerSet : AdjacencyIn("NORMAL")[a] # <<>> /\ out[a] = <<>>

-----------------------------------------------------------------------------
(* The swap planner's distance and the pathfinder *)

\* C39: distance(adj, from, to) is 0 when from is to, the number of edges of
\* the path bfsPath(adj, from, to) when that path is not empty, and
\* POSITIVE_INFINITY exactly when it is empty
C39_DistanceAgrees ==
    BfsDone =>
        LET d == distance(fn.adj, fn.start, fn.goal)
        IN  /\ tileEquals(fn.start, fn.goal) => d = 0
            /\ out # <<>> => d = Len(out) - 1
            /\ d = POSITIVE_INFINITY <=> out = <<>>

\* a goal three edges or more away, and a goal out of reach of a start that
\* has a neighbour
C39_Witness ==
    /\ BfsDone
    /\ \/ Len(out) >= 4 /\ distance(fn.adj, fn.start, fn.goal) = Len(out) - 1
       \/ /\ out = <<>>
          /\ neighborsOf(fn.adj, toTileId(fn.start)) # <<>>
          /\ distance(fn.adj, fn.start, fn.goal) = POSITIVE_INFINITY

-----------------------------------------------------------------------------
(* The order of neighbours *)

\* the four tiles around t: north, west, east, south
AroundInOrder(t) ==
    <<Tile(t.x, t.z - 1), Tile(t.x - 1, t.z), Tile(t.x + 1, t.z), Tile(t.x, t.z + 1)>>

\* the step between t and the tile n next to it is on the grid and survives
\* pruning
Survives(mode, g, t, n, towerSet) ==
    /\ isInBounds(n, g)
    /\ LegalEdge(mode, Edge(toTileId(t), toTileId(n), IF n.x # t.x THEN "X" ELSE "Z"),
                 towerSet)

\* the ids of a list of tiles
IdsOf(tiles) == [i \in 1..Len(tiles) |-> toTileId(tiles[i])]

\* C40: in the adjacency buildPrunedAdjacency builds, the neighbours of
\* (x, z) are (x, z-1), (x-1, z), (x+1, z), (x, z+1) in that order, without
\* those whose edge is off the grid or pruned, each listed once
C40_NeighbourOrder ==
    AdjDone =>
        \A t \in GridTiles(fn.grid) :
            out[toTileId(t)]
                = IdsOf(SelectSeq(AroundInOrder(t),
                                  LAMBDA n : Survives(fn.mode, fn.grid, t, n, fn.towerSet)))

\* a tile with its four neighbours listed, and a tile that lost a neighbour
\* to pruning and kept two
C40_Witness ==
    /\ AdjDone
    /\ \E t \in GridTiles(fn.grid) : Len(out[toTileId(t)]) = 4
    /\ \E t \in GridTiles(fn.grid) :
          /\ Len(out[toTileId(t)]) >= 2
          /\ \E i \in 1..4 : /\ isInBounds(AroundInOrder(t)[i], fn.grid)
                               /\ toTileId(AroundInOrder(t)[i]) \notin ListSet(out[toTileId(t)])

=============================================================================
